---- MODULE Spec2Model ----
(***************************************************************************)
(* Query engine of the rail planner (server.js): the data loaded at        *)
(* startup, the date cache, and the Search request handler with the        *)
(* round-based core (raptorCore / scanTrip / reconstructJourney) and the   *)
(* enumeration loop of searchJourneys, and the Explore request handler.    *)
(* The display fields of a leg (stop and route names) are left out.        *)
(*                                                                         *)
(* Conventions.  JavaScript null/undefined times are the value Null.  A    *)
(* JavaScript object used as a map is a function whose DOMAIN is the set   *)
(* of its keys; where the code depends on key order (Object.entries, Set   *)
(* and Map iteration) the keys are also kept as a sequence in insertion    *)
(* order.  Array indices are 1-based here and 0-based in the code.  A      *)
(* stop_to_trips entry refers to its trip by trip_id (the code holds a     *)
(* reference to the trip object of routeTrips).  Stop ids and dates are    *)
(* strings; the characters the code inspects in them are given by the      *)
(* tables IdChars and DateChars.                                           *)
(***************************************************************************)
EXTENDS Integers, Sequences, FiniteSets, TLC

VARIABLES
  routeTrips,         \* route_trips.json: sequence of [route_id, trips] in key order
  transferIndex,      \* transfer_index.json after startup linking: stop -> raw entries
  calendarIndex,      \* calendar_index.json: date -> set of active service ids
  stopsIndex,         \* stations.json as loaded by buildStopsIndex
  globalStopToTrips,  \* index built once at startup over the whole timetable
  dateCache,          \* Map date -> {stopToTrips}, as a sequence in insertion order
  pc,                 \* "idle" or "search" (inside the while loop of searchJourneys)
  sj,                 \* arguments and locals of the running searchJourneys call
  core,               \* the last raptorCore call: its start, its rounds, its result
  req,                \* the request being served, or the last one served
  response,           \* status and body of the last response
  feed,               \* gtfs-ingest.js: operators.json and the tables of each directory
  ingested,           \* gtfs-ingest.js: the results of ingestOperator so far
  artifacts           \* gtfs-ingest.js: the files written to engine_data

vars == <<routeTrips, transferIndex, calendarIndex, stopsIndex, globalStopToTrips,
          dateCache, pc, sj, core, req, response, feed, ingested, artifacts>>

offline == <<feed, ingested, artifacts>>

data == <<routeTrips, transferIndex, calendarIndex, stopsIndex, globalStopToTrips>>

----------------------------------------------------------------------------
(* Program constants *)

MAX_ROUNDS == 5
MIN_TRANSFER_SAME == 3 * 60
MIN_TRANSFER_CROSS == 10 * 60
MIN_TRANSFER_CITY == 45 * 60
CACHE_SIZE == 7
HORIZON == 14 * 3600
EMPTY_ADVANCE == 1800
MAX_EMPTY == 4

(* Bound of the model: the number of trips of the pool a timetable holds *)
MaxTrips == 2

Null == 0 - 1

HM(h, m) == h * 3600 + m * 60

----------------------------------------------------------------------------
(* Generic helpers for JavaScript collections *)

EmptyMap == [x \in {} |-> 0]

Put(f, k, v) == [x \in (DOMAIN f) \cup {k} |-> IF x = k THEN v ELSE f[x]]

Has(f, k) == k \in DOMAIN f

Range(s) == {s[i] : i \in DOMAIN s}

Includes(s, x) == \E i \in DOMAIN s : s[i] = x

\* Set.add / Map key insertion: keeps the first insertion position
AddKey(s, x) == IF Includes(s, x) THEN s ELSE Append(s, x)

\* a ?? b
Coalesce(a, b) == IF a # Null THEN a ELSE b

Max(a, b) == IF a >= b THEN a ELSE b

Min(a, b) == IF a <= b THEN a ELSE b

RECURSIVE SelectSeqIdx(_, _, _)
SelectSeqIdx(s, Test(_), i) ==
  IF i > Len(s) THEN <<>>
  ELSE (IF Test(s[i]) THEN <<s[i]>> ELSE <<>>) \o SelectSeqIdx(s, Test, i + 1)

Filter(s, Test(_)) == SelectSeqIdx(s, Test, 1)

RECURSIVE Flatten(_)
Flatten(ss) == IF ss = <<>> THEN <<>> ELSE Head(ss) \o Flatten(Tail(ss))

----------------------------------------------------------------------------
(* Identifiers: stop ids and the characters of each *)

A == "SNCF:A"
B == "SNCF:B"
C == "SNCF:C"
E == "SNCF:E"
Z == "OUIGO_ES:Z"
D == "SNCF:D"
F == "SNCF:F"
G == "SNCF:G"
M == "TI:M"

StopIds == {A, B, C, E, Z, D, F, G, M}

IdChars ==
  [s \in StopIds |->
     CASE s = A -> <<"S", "N", "C", "F", ":", "A">>
       [] s = B -> <<"S", "N", "C", "F", ":", "B">>
       [] s = C -> <<"S", "N", "C", "F", ":", "C">>
       [] s = E -> <<"S", "N", "C", "F", ":", "E">>
       [] s = Z -> <<"O", "U", "I", "G", "O", "_", "E", "S", ":", "Z">>
       [] s = D -> <<"S", "N", "C", "F", ":", "D">>
       [] s = F -> <<"S", "N", "C", "F", ":", "F">>
       [] s = G -> <<"S", "N", "C", "F", ":", "G">>
       [] s = M -> <<"T", "I", ":", "M">>]

UpperCase == {"A", "B", "C", "D", "E", "F", "G", "H", "I", "J", "K", "L", "M",
              "N", "O", "P", "Q", "R", "S", "T", "U", "V", "W", "X", "Y", "Z"}

OpSNCF == <<"S", "N", "C", "F">>
OpTI == <<"T", "I">>
OpOUIGO_ES == <<"O", "U", "I", "G", "O", "_", "E", "S">>

\* length of the longest prefix of cs made of characters of class
RECURSIVE RunLength(_, _, _)
RunLength(cs, class, i) ==
  IF i <= Len(cs) /\ cs[i] \in class THEN RunLength(cs, class, i + 1) ELSE i - 1

\* sid.match(/^([A-Z]+):/) ; m ? m[1] : 'SNCF'
MatchOperator(cs, n) ==
  IF n >= 1 /\ n + 1 <= Len(cs) /\ cs[n + 1] = ":" THEN SubSeq(cs, 1, n) ELSE OpSNCF

extractOperator(sid) == MatchOperator(IdChars[sid], RunLength(IdChars[sid], UpperCase, 1))

----------------------------------------------------------------------------
(* Dates *)

NoDate == ""
June15 == "2025-06-15"
Nov15 == "2025-11-15"

DateChars ==
  [d \in {June15, Nov15} |->
     CASE d = June15 -> <<2, 0, 2, 5, "-", 0, 6, "-", 1, 5>>
       [] d = Nov15 -> <<2, 0, 2, 5, "-", 1, 1, "-", 1, 5>>]

\* new Date(dateISO + 'T12:00:00Z').getUTCMonth() + 1
MonthOf(dateISO) == DateChars[dateISO][6] * 10 + DateChars[dateISO][7]

\* tiAdjust without the summer offset
tiAdjustNoSummer(seconds, dateISO) ==
  IF seconds = Null THEN seconds ELSE seconds + 3600

tiAdjust(seconds, dateISO) ==
  IF seconds = Null THEN seconds
  ELSE IF dateISO # NoDate
       THEN seconds + (IF MonthOf(dateISO) >= 4 /\ MonthOf(dateISO) <= 9 THEN 7200 ELSE 3600)
       ELSE seconds + 3600

\* the hour and minute shown by secondsToHHMM
secondsToHHMM(s) ==
  IF s = Null THEN <<Null, Null>>
  ELSE LET totalMin == s \div 60 IN <<(totalMin \div 60) % 24, totalMin % 60>>

\* timeToSeconds of an "HH:MM" string, given as <<HH, MM>>
timeToSeconds(t) == t[1] * 3600 + t[2] * 60

----------------------------------------------------------------------------
(* Transfer index *)

\* a raw entry of transfer_index.json: a string, or an object {id, interCity}
Str(id) == [isString |-> TRUE, id |-> id, interCity |-> FALSE]
Obj(id, ic) == [isString |-> FALSE, id |-> id, interCity |-> ic]

RawEntries(tIndex, stopId) == IF stopId \in DOMAIN tIndex THEN tIndex[stopId] ELSE <<>>

\* .map(e => typeof e === 'string' ? { id: e, interCity: false } : e)
MapEntries(raw) ==
  [i \in DOMAIN raw |->
     IF raw[i].isString THEN [id |-> raw[i].id, interCity |-> FALSE]
     ELSE [id |-> raw[i].id, interCity |-> raw[i].interCity]]

transferEntriesOf(tIndex, stopId) == MapEntries(RawEntries(tIndex, stopId))

transferEntries(stopId) == transferEntriesOf(transferIndex, stopId)

transferTime(fromId, toEntry) ==
  IF toEntry.interCity THEN MIN_TRANSFER_CITY
  ELSE IF extractOperator(fromId) = extractOperator(toEntry.id)
       THEN MIN_TRANSFER_SAME ELSE MIN_TRANSFER_CROSS

----------------------------------------------------------------------------
(* Timetable.  A stop time is {stop_id, arr_time, dep_time}; a trip is what *)
(* ingestion writes: trip_id, service_id, train_type, operator, stop_times. *)

ST(sid, arr, dep) == [stop_id |-> sid, arr_time |-> arr, dep_time |-> dep]

Trip(id, svc, type, op, sts) ==
  [trip_id |-> id, service_id |-> svc, train_type |-> type, operator |-> op,
   stop_times |-> sts]

\* The trips a feed may hold, each with its route, in the order of route_trips.json
\* (routes in key order, the trips of a route by first departure).
TripPool ==
  << [route_id |-> "SNCF:R1",
      trip |-> Trip("SNCF:t1", "SNCF:sv1", "INOUI", OpSNCF,
                    <<ST(A, Null, HM(7, 0)), ST(D, HM(9, 0), Null)>>)],
     [route_id |-> "SNCF:R2",
      trip |-> Trip("SNCF:t2", "SNCF:sv1", "INOUI", OpSNCF,
                    <<ST(A, HM(8, 2), HM(8, 2)), ST(E, HM(8, 10), HM(8, 10)),
                      ST(D, HM(11, 0), HM(11, 0))>>)],
     [route_id |-> "SNCF:R3",
      trip |-> Trip("SNCF:t3", "SNCF:sv2", "TER", OpSNCF,
                    <<ST(B, HM(8, 2), HM(8, 2)), ST(D, HM(9, 40), HM(9, 40))>>)],
     [route_id |-> "SNCF:R4",
      trip |-> Trip("SNCF:t4", "SNCF:sv1", "OUIGO", OpSNCF,
                    <<ST(C, HM(8, 44), HM(8, 44)), ST(E, HM(9, 0), HM(9, 5)),
                      ST(D, HM(10, 30), HM(10, 30))>>)],
     [route_id |-> "SNCF:R5",
      trip |-> Trip("SNCF:t5", "SNCF:sv1", "TER", OpSNCF,
                    <<ST(E, HM(8, 50), HM(8, 50)), ST(D, HM(10, 40), HM(10, 40))>>)],
     [route_id |-> "SNCF:R6",
      trip |-> Trip("SNCF:t6", "SNCF:sv1", "INOUI", OpSNCF,
                    <<ST(A, HM(7, 40), HM(7, 40)), ST(E, HM(8, 10), HM(8, 10))>>)],
     [route_id |-> "OUIGO_ES:R7",
      trip |-> Trip("OUIGO_ES:t10", "OUIGO_ES:sv1", "TRAIN", OpOUIGO_ES,
                    <<ST(Z, HM(8, 16), HM(8, 16)), ST(D, HM(9, 45), HM(9, 45))>>)],
     [route_id |-> "OUIGO_ES:R7",
      trip |-> Trip("OUIGO_ES:t7", "OUIGO_ES:sv1", "TRAIN", OpOUIGO_ES,
                    <<ST(Z, HM(8, 20), HM(8, 20)), ST(D, HM(9, 50), HM(9, 50))>>)],
     [route_id |-> "TI:R8",
      trip |-> Trip("TI:t8", "TI:sv1", "FRECCIAROSSA", OpTI,
                    <<ST(M, HM(11, 0), HM(11, 0)), ST(D, HM(14, 0), HM(14, 0))>>)],
     [route_id |-> "SNCF:R9",
      trip |-> Trip("SNCF:t9", "SNCF:sv2", "TER", OpSNCF,
                    <<ST(A, HM(7, 20), HM(7, 20)), ST(D, HM(7, 0), HM(7, 0))>>)] >>

PoolRoutes == <<"SNCF:R1", "SNCF:R2", "SNCF:R3", "SNCF:R4", "SNCF:R5", "SNCF:R6", "OUIGO_ES:R7",
                "TI:R8", "SNCF:R9">>

\* route_trips.json holding the trips K of the pool
RouteTripsOf(K) ==
  LET tripsOn(rid) ==
        LET idx == Filter([i \in 1..Len(TripPool) |-> i],
                          LAMBDA i : i \in K /\ TripPool[i].route_id = rid)
        IN [n \in DOMAIN idx |-> TripPool[idx[n]].trip]
      kept == Filter(PoolRoutes, LAMBDA rid : tripsOn(rid) # <<>>)
  IN [n \in DOMAIN kept |-> [route_id |-> kept[n], trips |-> tripsOn(kept[n])]]

\* route_trips.json of a feed of five trips, each leaving a stop the one before
\* reaches: M -> Z, E -> C, A -> B, B -> G, G -> D
ChainTimetable ==
  << [route_id |-> "SNCF:K1",
      trips |-> <<Trip("SNCF:c1", "SNCF:sv1", "TER", OpSNCF,
                       <<ST(M, HM(12, 10), HM(12, 10)), ST(Z, HM(12, 40), HM(12, 40))>>)>>],
     [route_id |-> "SNCF:K2",
      trips |-> <<Trip("SNCF:c2", "SNCF:sv1", "TER", OpSNCF,
                       <<ST(E, HM(13, 0), HM(13, 0)), ST(C, HM(13, 30), HM(13, 30))>>)>>],
     [route_id |-> "SNCF:K3",
      trips |-> <<Trip("SNCF:c3", "SNCF:sv1", "TER", OpSNCF,
                       <<ST(A, HM(14, 20), HM(14, 20)), ST(B, HM(14, 50), HM(14, 50))>>)>>],
     [route_id |-> "SNCF:K4",
      trips |-> <<Trip("SNCF:c4", "SNCF:sv1", "TER", OpSNCF,
                       <<ST(B, HM(15, 0), HM(15, 0)), ST(G, HM(15, 30), HM(15, 30))>>)>>],
     [route_id |-> "SNCF:K5",
      trips |-> <<Trip("SNCF:c5", "SNCF:sv1", "TER", OpSNCF,
                       <<ST(G, HM(15, 40), HM(15, 40)), ST(D, HM(16, 10), HM(16, 10))>>)>>] >>

\* route_trips.json of a feed of two trips: t11 leaves B before t2 leaves A and
\* calls at E after t2 does
OvertakeTimetable ==
  << [route_id |-> "SNCF:R10",
      trips |-> <<Trip("SNCF:t11", "SNCF:sv1", "TER", OpSNCF,
                       <<ST(B, HM(7, 50), HM(7, 50)), ST(E, HM(8, 25), HM(8, 30)),
                         ST(D, HM(10, 0), HM(10, 0))>>)>>],
     [route_id |-> "SNCF:R2",
      trips |-> <<Trip("SNCF:t2", "SNCF:sv1", "INOUI", OpSNCF,
                       <<ST(A, HM(8, 2), HM(8, 2)), ST(E, HM(8, 10), HM(8, 10)),
                         ST(D, HM(11, 0), HM(11, 0))>>)>>] >>

Timetables ==
  {RouteTripsOf(K) : K \in {S \in SUBSET (1..Len(TripPool)) : Cardinality(S) <= MaxTrips}}
  \cup {ChainTimetable, OvertakeTimetable}

AllTrips(tripsData) == Flatten([r \in DOMAIN tripsData |-> tripsData[r].trips])

\* the trip object a stop_to_trips entry refers to
TripById(id) == CHOOSE t \in Range(AllTrips(routeTrips)) : t.trip_id = id

\* transfer_index.json: A and B are platforms of one station, C and E are other
\* stations of the same city, Z is the stop of another operator at E's station,
\* D and F are platforms of the station of the destination, G and M have no
\* neighbour
TransferIndex0 ==
  (A :> <<Str(B), Obj(C, TRUE)>>) @@ (B :> <<Str(A)>>) @@
  (C :> <<Obj(A, TRUE), Obj(E, TRUE)>>) @@ (E :> <<Obj(C, TRUE), Str(Z)>>) @@
  (Z :> <<Str(E)>>) @@ (D :> <<Str(F)>>) @@ (F :> <<Str(D)>>)

\* calendar_index.json: the feeds cover June15 and not Nov15; the services sv2 do
\* not run on June15
CalendarIndex0 == (June15 :> {"SNCF:sv1", "OUIGO_ES:sv1", "TI:sv1"})

Station(name, city, country, ids, lat, lon) ==
  [name |-> name, city |-> city, country |-> country, stopIds |-> ids,
   lat |-> lat, lon |-> lon]

StopsIndex0 ==
  << Station("Paris A", "Paris", "FR", <<A, B>>, 4884, 235),
     Station("Paris C", "Paris", "FR", <<C>>, 4887, 236),
     Station("Paris E", "Paris", "FR", <<E, Z>>, 4885, 238),
     Station("Lyon D", "Lyon", "FR", <<D, F>>, 4576, 486),
     Station("Nice G", "Nice", "FR", <<G>>, 4370, 726),
     Station("Milano M", "Milano", "IT", <<M>>, 4548, 920) >>

\* city.toLowerCase().normalize('NFD').replace(/[̀-ͯ]/g, '')
NormCity ==
  ("Paris" :> "paris") @@ ("Lyon" :> "lyon") @@ ("Nice" :> "nice") @@ ("Milano" :> "milano")

----------------------------------------------------------------------------
(* Startup index and date filtering *)

\* the entries of one trip, one per stop time
TripEntries(routeId, trip) ==
  [i \in DOMAIN trip.stop_times |-> [routeId |-> routeId, trip |-> trip.trip_id, idx |-> i]]

buildStopToTrips(tripsData) ==
  LET all == Flatten([r \in DOMAIN tripsData |->
                 Flatten([k \in DOMAIN tripsData[r].trips |->
                    TripEntries(tripsData[r].route_id, tripsData[r].trips[k])])])
      stopOf(e) ==
        (CHOOSE t \in Range(AllTrips(tripsData)) : t.trip_id = e.trip).stop_times[e.idx].stop_id
      sids == {stopOf(all[i]) : i \in DOMAIN all}
  IN [sid \in sids |-> Filter(all, LAMBDA e : stopOf(e) = sid)]

\* stopToTripsData[stop] || []
EntriesAt(stt, stop) == IF stop \in DOMAIN stt THEN stt[stop] ELSE <<>>

CacheHas(cache, dateISO) == \E i \in DOMAIN cache : cache[i].date = dateISO

CacheGet(cache, dateISO) == (CHOOSE i \in DOMAIN cache : cache[i].date = dateISO)

\* lines 334-338 keeping every trip
filteredTripsIgnoringCalendar(active) == routeTrips

\* lines 334-338: the routes and trips whose service is active
filteredTrips(active) ==
  LET valid(r) == Filter(routeTrips[r].trips, LAMBDA t : t.service_id \in active)
      kept == Filter([r \in DOMAIN routeTrips |-> r], LAMBDA r : valid(r) # <<>>)
  IN [n \in DOMAIN kept |-> [route_id |-> routeTrips[kept[n]].route_id, trips |-> valid(kept[n])]]

\* lines 339-341 with the newest entry leaving a full cache
CachePutEvictsNewest(cache, dateISO, result) ==
  [stopToTrips |-> result,
   cache |-> Append(IF Len(cache) >= CACHE_SIZE THEN SubSeq(cache, 1, Len(cache) - 1) ELSE cache,
                    [date |-> dateISO, stopToTrips |-> result])]

\* lines 339-341: the oldest entry leaves a full cache, the result enters
CachePut(cache, dateISO, result) ==
  [stopToTrips |-> result,
   cache |-> Append(IF Len(cache) >= CACHE_SIZE THEN Tail(cache) ELSE cache,
                    [date |-> dateISO, stopToTrips |-> result])]

\* the value returned and the cache left behind
getFilteredData(dateISO) ==
  IF dateISO = NoDate THEN [stopToTrips |-> globalStopToTrips, cache |-> dateCache]
  ELSE IF CacheHas(dateCache, dateISO)
  THEN [stopToTrips |-> dateCache[CacheGet(dateCache, dateISO)].stopToTrips, cache |-> dateCache]
  ELSE IF dateISO \notin DOMAIN calendarIndex
  THEN [stopToTrips |-> globalStopToTrips, cache |-> dateCache]
  ELSE CachePut(dateCache, dateISO, buildStopToTrips(filteredTrips(calendarIndex[dateISO])))

\* No id of the model is a StopArea id, so the UIC expansion of lines 295-301 adds nothing.
RECURSIVE ResolveEntries(_, _, _, _, _, _)
ResolveEntries(id, entries, i, mode, inputSet, out) ==
  IF i > Len(entries) THEN out
  ELSE LET entry == entries[i]
           skip == mode = "dest" /\ (\/ entry.id \in inputSet
                                     \/ entry.interCity
                                     \/ extractOperator(id) # extractOperator(entry.id))
       IN ResolveEntries(id, entries, i + 1, mode, inputSet,
                         IF skip THEN out ELSE AddKey(out, entry.id))

RECURSIVE ResolveIds(_, _, _, _)
ResolveIds(ids, i, mode, out) ==
  IF i > Len(ids) THEN out
  ELSE ResolveIds(ids, i + 1, mode,
                  ResolveEntries(ids[i], transferEntries(ids[i]), 1, mode, Range(ids), out))

RECURSIVE Dedup(_)
Dedup(s) == IF s = <<>> THEN <<>> ELSE AddKey(Dedup(SubSeq(s, 1, Len(s) - 1)), s[Len(s)])

resolveStopIds(ids, mode) == ResolveIds(ids, 1, mode, Dedup(ids))

----------------------------------------------------------------------------
(* Round-based core.  A search state st is the record of raptorCore's      *)
(* tau_best, parent, originSet and marked together with the tau_cur of the *)
(* running round (curKeys: its keys in insertion order).                   *)

RideParent(boardStop, trip, routeId, boardDep, arr) ==
  [from_stop |-> boardStop, trip_id |-> trip.trip_id, route_id |-> routeId,
   dep_time |-> boardDep, arr_time |-> arr, train_type |-> trip.train_type,
   operator |-> trip.operator, is_transfer |-> FALSE]

TransferParent(fromStop, dep, arr) ==
  [from_stop |-> fromStop, trip_id |-> "", route_id |-> "",
   dep_time |-> dep, arr_time |-> arr, train_type |-> "",
   operator |-> <<>>, is_transfer |-> TRUE]

\* x < (tau[sid] ?? Infinity)
Improves(x, tau, sid) == ~Has(tau, sid) \/ x < tau[sid]

NotBoarded == [boarded |-> FALSE, stop |-> "", dep |-> Null]

\* the time scanTrip reads from a stop time: adjusted for a TI trip
ReadTime(trip, raw, dateISO) ==
  IF trip.operator = OpTI /\ raw # Null THEN tiAdjust(raw, dateISO) ELSE raw

\* the test of line 436 at a stop whose label is tau
CanBoard(dep, tau) == dep # Null /\ dep >= tau

\* lines 431-441: the boarding state after the stop sid, where the trip leaves at dep
TryBoard(b, st, sid, dep) ==
  IF Has(st.tau_best, sid) /\ CanBoard(dep, st.tau_best[sid])
  THEN [boarded |-> TRUE, stop |-> sid, dep |-> dep] ELSE b

\* lines 444-460: the labels after the stop sid, where the trip arrives at arr
Alight(b, st, trip, routeId, sid, arr) ==
  IF arr # Null /\ Improves(arr, st.tau_best, sid)
  THEN [st EXCEPT !.tau_best = Put(@, sid, arr),
                  !.tau_cur = Put(@, sid, arr),
                  !.curKeys = AddKey(@, sid),
                  !.parent = Put(@, sid, RideParent(b.stop, trip, routeId, b.dep, arr))]
  ELSE st

RECURSIVE ScanLoop(_, _, _, _, _, _)
ScanLoop(trip, i, b, st, routeId, dateISO) ==
  IF i > Len(trip.stop_times) THEN st
  ELSE IF ~b.boarded
  THEN ScanLoop(trip, i + 1,
                TryBoard(b, st, trip.stop_times[i].stop_id,
                         ReadTime(trip, Coalesce(trip.stop_times[i].dep_time,
                                                 trip.stop_times[i].arr_time), dateISO)),
                st, routeId, dateISO)
  ELSE ScanLoop(trip, i + 1, b,
                Alight(b, st, trip, routeId, trip.stop_times[i].stop_id,
                       ReadTime(trip, Coalesce(trip.stop_times[i].arr_time,
                                               trip.stop_times[i].dep_time), dateISO)),
                routeId, dateISO)

scanTrip(trip, fromIdx, st, routeId, dateISO) ==
  ScanLoop(trip, fromIdx, NotBoarded, st, routeId, dateISO)

\* lines 478-491: the transfer neighbours of one origin
\* lines 481-486: the sister reached at t from the origin oid
SeedSister(oid, entry, startTime, t, st) ==
  IF Improves(t, st.tau_best, entry.id)
  THEN [st EXCEPT !.tau_best = Put(@, entry.id, t),
                  !.marked = AddKey(@, entry.id),
                  !.parent = Put(@, entry.id, TransferParent(oid, startTime, t))]
  ELSE st

\* line 490
AddSisterOrigin(entry, st) ==
  IF ~entry.interCity THEN [st EXCEPT !.originSet = @ \cup {entry.id}] ELSE st

RECURSIVE SeedSisters(_, _, _, _, _)
SeedSisters(oid, entries, i, startTime, st) ==
  IF i > Len(entries) THEN st
  ELSE SeedSisters(oid, entries, i + 1, startTime,
         AddSisterOrigin(entries[i],
           SeedSister(oid, entries[i], startTime,
                      startTime + transferTime(oid, entries[i]), st)))

\* lines 471-492
\* lines 472-476
SeedOrigin(oid, startTime, st) ==
  IF ~Has(st.tau_best, oid) \/ st.tau_best[oid] > startTime
  THEN [st EXCEPT !.tau_best = Put(@, oid, startTime),
                  !.marked = AddKey(@, oid),
                  !.originSet = @ \cup {oid}]
  ELSE [st EXCEPT !.originSet = @ \cup {oid}]

RECURSIVE SeedOrigins(_, _, _, _)
SeedOrigins(originIds, i, startTime, st) ==
  IF i > Len(originIds) THEN st
  ELSE SeedOrigins(originIds, i + 1, startTime,
                   SeedSisters(originIds[i], transferEntries(originIds[i]), 1, startTime,
                               SeedOrigin(originIds[i], startTime, st)))

EmptySearch ==
  [tau_best |-> EmptyMap, parent |-> EmptyMap, originSet |-> {}, marked |-> <<>>,
   tau_cur |-> EmptyMap, curKeys |-> <<>>]

\* lines 503-507: the trips of the marked stops
RECURSIVE ScanEntries(_, _, _, _)
ScanEntries(entries, i, st, dateISO) ==
  IF i > Len(entries) THEN st
  ELSE ScanEntries(entries, i + 1,
                   scanTrip(TripById(entries[i].trip), entries[i].idx, st,
                            entries[i].routeId, dateISO),
                   dateISO)

RECURSIVE ScanMarked(_, _, _, _, _)
ScanMarked(marked, i, st, stt, dateISO) ==
  IF i > Len(marked) THEN st
  ELSE ScanMarked(marked, i + 1,
                  ScanEntries(EntriesAt(stt, marked[i]), 1, st, dateISO), stt, dateISO)

\* lines 512-522: the transfers out of sid, reached at arr in this round
\* lines 515-521: the sister reached at t from sid
RelaxEntry(sid, arr, entry, t, st) ==
  IF Improves(t, st.tau_best, entry.id)
  THEN [st EXCEPT !.tau_best = Put(@, entry.id, t),
                  !.tau_cur = Put(@, entry.id, t),
                  !.curKeys = AddKey(@, entry.id),
                  !.parent = Put(@, entry.id, TransferParent(sid, arr, t)),
                  !.marked = AddKey(@, entry.id)]
  ELSE st

RECURSIVE RelaxEntries(_, _, _, _, _)
RelaxEntries(sid, arr, entries, i, st) ==
  IF i > Len(entries) THEN st
  ELSE RelaxEntries(sid, arr, entries, i + 1,
                    RelaxEntry(sid, arr, entries[i], arr + transferTime(sid, entries[i]), st))

\* lines 509-523 over the entries of tau_cur as they were when the loop began;
\* st.marked is newMarked
\* line 510
MarkImproved(sid, arr, prev, st) ==
  IF Improves(arr, prev, sid) THEN [st EXCEPT !.marked = AddKey(@, sid)] ELSE st

RECURSIVE RelaxTransfers(_, _, _, _, _)
RelaxTransfers(keys, vals, i, prev, st) ==
  IF i > Len(keys) THEN st
  ELSE RelaxTransfers(keys, vals, i + 1, prev,
                      RelaxEntries(keys[i], vals[keys[i]], transferEntries(keys[i]), 1,
                                   MarkImproved(keys[i], vals[keys[i]], prev, st)))

----------------------------------------------------------------------------
(* Journey reconstruction *)

\* Math.round(x / 60)
RoundMinutes(x) == (2 * x + 60) \div 120

\* every trip written by ingestion stores its train type, so detectTrainType
\* returns at its first line
detectTrainType(stored) == stored

Leg(p, current) ==
  [from_id |-> p.from_stop, to_id |-> current,
   dep_time |-> p.dep_time, arr_time |-> p.arr_time,
   dep_str |-> secondsToHHMM(p.dep_time), arr_str |-> secondsToHHMM(p.arr_time),
   trip_id |-> p.trip_id, route_id |-> p.route_id,
   operator |-> IF p.operator # <<>> THEN p.operator ELSE extractOperator(p.from_stop),
   train_type |-> detectTrainType(p.train_type),
   duration |-> RoundMinutes(p.arr_time - p.dep_time)]

\* the back-walk that returns the legs it has when it meets a stop again
RECURSIVE BackWalkKeeps(_, _, _, _, _)
BackWalkKeeps(parent, originSet, current, visited, legs) ==
  IF current \in originSet THEN <<legs>>
  ELSE IF current \in visited THEN <<legs>>
  ELSE IF ~Has(parent, current) THEN <<>>
  ELSE BackWalkKeeps(parent, originSet, parent[current].from_stop, visited \cup {current},
                     IF parent[current].is_transfer THEN legs
                     ELSE <<Leg(parent[current], current)>> \o legs)

\* the while loop of lines 641-685: <<>> when it returns null, else <<legs>>
RECURSIVE BackWalk(_, _, _, _, _)
BackWalk(parent, originSet, current, visited, legs) ==
  IF current \in originSet THEN <<legs>>
  ELSE IF current \in visited THEN <<>>
  ELSE IF ~Has(parent, current) THEN <<>>
  ELSE BackWalk(parent, originSet, parent[current].from_stop, visited \cup {current},
                IF parent[current].is_transfer THEN legs
                ELSE <<Leg(parent[current], current)>> \o legs)

Transfers(legs) == Len(legs) - 1

Journey(legs) ==
  [dep_time |-> legs[1].dep_time, arr_time |-> legs[Len(legs)].arr_time,
   dep_str |-> secondsToHHMM(legs[1].dep_time),
   arr_str |-> secondsToHHMM(legs[Len(legs)].arr_time),
   duration |-> RoundMinutes(legs[Len(legs)].arr_time - legs[1].dep_time),
   transfers |-> Transfers(legs),
   train_types |-> Dedup([i \in DOMAIN legs |-> legs[i].train_type]),
   legs |-> legs]

\* lines 687-699: w is the outcome of the while loop
JourneyOfWalk(w) == IF w = <<>> \/ w[1] = <<>> THEN <<>> ELSE <<Journey(w[1])>>

\* <<>> for null, else <<journey>>
reconstructJourney(parent, originSet, destId, dateISO) ==
  JourneyOfWalk(BackWalk(parent, originSet, destId, {}, <<>>))

\* j.legs.map(l => l.trip_id).join('|')
TripKey(j) == [i \in DOMAIN j.legs |-> j.legs[i].trip_id]

----------------------------------------------------------------------------
(* raptorCore: a run is the search state, the results and the collected set, *)
(* and the labels and marked stops left by each round.                       *)

Dest(ids) == [given |-> TRUE, ids |-> ids]
NoDest == [given |-> FALSE, ids |-> <<>>]

HasKey(results, j) == \E n \in DOMAIN results : TripKey(results[n]) = TripKey(j)

\* every reconstructed journey is pushed
AddResultAlways(results, j) ==
  IF j # <<>> THEN Append(results, j[1]) ELSE results

\* lines 529-535: j is <<>> or <<journey>>
AddResult(results, j) ==
  IF j # <<>> /\ ~HasKey(results, j[1]) THEN Append(results, j[1]) ELSE results

\* lines 527-537
RECURSIVE CollectDest(_, _, _, _, _, _)
CollectDest(dests, i, prev, st, results, dateISO) ==
  IF i > Len(dests) THEN results
  ELSE CollectDest(dests, i + 1, prev, st,
         AddResult(results,
                   IF Has(st.tau_cur, dests[i]) /\ Improves(st.tau_cur[dests[i]], prev, dests[i])
                   THEN reconstructJourney(st.parent, st.originSet, dests[i], dateISO)
                   ELSE <<>>),
         dateISO)

\* lines 543-546: acc is [results, collected]
AddReached(acc, sid, j) ==
  IF j # <<>>
  THEN [results |-> Append(acc.results, j[1]), collected |-> acc.collected \cup {sid}]
  ELSE acc

\* lines 539-548
RECURSIVE CollectAll(_, _, _, _, _, _)
CollectAll(keys, i, prev, st, acc, dateISO) ==
  IF i > Len(keys) THEN acc
  ELSE CollectAll(keys, i + 1, prev, st,
         AddReached(acc, keys[i],
                    IF keys[i] \notin st.originSet /\ keys[i] \notin acc.collected
                       /\ Improves(st.tau_cur[keys[i]], prev, keys[i])
                    THEN reconstructJourney(st.parent, st.originSet, keys[i], dateISO)
                    ELSE <<>>),
         dateISO)

\* the run after a round that ends with the search state st and the results acc
RoundEnd(run, st, acc) ==
  [st |-> st, results |-> acc.results, collected |-> acc.collected,
   rounds |-> Append(run.rounds, [tau_best |-> st.tau_best, marked |-> st.marked])]

\* lines 526-549
RoundCollect(run, dest, st, dateISO) ==
  RoundEnd(run, st,
           IF dest.given
           THEN [results |-> CollectDest(Dedup(dest.ids), 1, run.st.tau_best, st,
                                         run.results, dateISO),
                 collected |-> run.collected]
           ELSE CollectAll(st.curKeys, 1, run.st.tau_best, st,
                           [results |-> run.results, collected |-> run.collected], dateISO))

\* lines 509-524 after the scan of the marked stops; prev is tau_prev_round
RoundRelax(prev, scanned) ==
  RelaxTransfers(scanned.curKeys, scanned.tau_cur, 1, prev, [scanned EXCEPT !.marked = <<>>])

\* one iteration of the for loop of lines 498-552
Round(run, dest, stt, dateISO) ==
  RoundCollect(run, dest,
               RoundRelax(run.st.tau_best,
                          ScanMarked(run.st.marked, 1,
                                     [run.st EXCEPT !.tau_cur = EmptyMap, !.curKeys = <<>>],
                                     stt, dateISO)),
               dateISO)

RECURSIVE Rounds(_, _, _, _, _, _)

\* the loop ends on a round that marked nothing, but never on the first
AfterRoundTwo(round, maxRounds, next, dest, stt, dateISO) ==
  IF next.st.marked = <<>> /\ round > 1 THEN next
  ELSE Rounds(round + 1, maxRounds, next, dest, stt, dateISO)

\* line 551: the loop ends when the round marked nothing
AfterRound(round, maxRounds, next, dest, stt, dateISO) ==
  IF next.st.marked = <<>> THEN next
  ELSE Rounds(round + 1, maxRounds, next, dest, stt, dateISO)

Rounds(round, maxRounds, run, dest, stt, dateISO) ==
  IF round > maxRounds THEN run
  ELSE AfterRound(round, maxRounds, Round(run, dest, stt, dateISO), dest, stt, dateISO)

\* what the model keeps of a call: its start, its seeds, its labels and its results
CoreResult(startTime, seeded, run) ==
  [start |-> startTime, seeds |-> seeded.tau_best, originSet |-> run.st.originSet,
   tau_best |-> run.st.tau_best, parent |-> run.st.parent,
   rounds |-> run.rounds, results |-> run.results]

\* lines 494-554
CoreRounds(startTime, seeded, dest, stt, dateISO) ==
  CoreResult(startTime, seeded,
             Rounds(1, MAX_ROUNDS,
                    [st |-> seeded, results |-> <<>>, collected |-> {}, rounds |-> <<>>],
                    dest, stt, dateISO))

raptorCore(originIds, dest, startTime, stt, dateISO) ==
  CoreRounds(startTime, SeedOrigins(originIds, 1, startTime, EmptySearch), dest, stt, dateISO)

----------------------------------------------------------------------------
(* searchJourneys *)

NoFilter == [on |-> FALSE, types |-> {}]
Only(types) == [on |-> TRUE, types |-> types]

\* line 590: the journey is skipped
Rejected(j, allowedTypes) ==
  allowedTypes.on /\ ~\E n \in DOMAIN j.train_types : j.train_types[n] \in allowedTypes.types

\* lines 588-597: acc is [seen, results, maxDepThis]
RECURSIVE TakeBatch(_, _, _, _, _)
TakeBatch(batch, i, startTime, allowedTypes, acc) ==
  IF i > Len(batch) THEN acc
  ELSE TakeBatch(batch, i + 1, startTime, allowedTypes,
         IF batch[i].dep_time < startTime \/ Rejected(batch[i], allowedTypes)
            \/ TripKey(batch[i]) \in acc.seen
         THEN acc
         ELSE [seen |-> acc.seen \cup {TripKey(batch[i])},
               results |-> Append(acc.results, batch[i]),
               maxDepThis |-> Max(acc.maxDepThis, batch[i].dep_time)])

\* a.transfers - b.transfers || a.duration - b.duration || a.dep_time - b.dep_time
Compare(a, b) ==
  IF a.transfers # b.transfers THEN a.transfers - b.transfers
  ELSE IF a.duration # b.duration THEN a.duration - b.duration
  ELSE a.dep_time - b.dep_time

\* Array.prototype.sort is stable: x goes after the elements that do not follow it
RECURSIVE InsertSorted(_, _)
InsertSorted(sorted, x) ==
  IF sorted = <<>> THEN <<x>>
  ELSE IF Compare(sorted[Len(sorted)], x) <= 0 THEN Append(sorted, x)
  ELSE Append(InsertSorted(SubSeq(sorted, 1, Len(sorted) - 1), x), sorted[Len(sorted)])

\* the list left in the order of discovery
SortJourneysNot(js) == js

RECURSIVE SortJourneys(_)
SortJourneys(js) ==
  IF js = <<>> THEN <<>>
  ELSE InsertSorted(SortJourneys(SubSeq(js, 1, Len(js) - 1)), js[Len(js)])

cityKeyOfStop(stopId) ==
  LET hits == {n \in DOMAIN stopsIndex : Includes(stopsIndex[n].stopIds, stopId)}
  IN IF hits = {} THEN <<stopId>>
     ELSE LET st == stopsIndex[CHOOSE n \in hits : \A k \in hits : n <= k]
          IN <<NormCity[IF st.city # "" THEN st.city ELSE st.name],
               IF st.country # "" THEN st.country ELSE "FR">>

\* lines 618-627: the Map as a sequence of [key, journey] in insertion order
\* the first journey seen under a key stays
KeepFirst(map, key, j) ==
  IF \A n \in DOMAIN map : map[n].key # key THEN Append(map, [key |-> key, journey |-> j])
  ELSE map

\* lines 622-626: the journey j under key
KeepFaster(map, key, j) ==
  IF \A n \in DOMAIN map : map[n].key # key THEN Append(map, [key |-> key, journey |-> j])
  ELSE [n \in DOMAIN map |->
          IF map[n].key = key /\ j.duration < map[n].journey.duration
          THEN [key |-> key, journey |-> j] ELSE map[n]]

RECURSIVE DedupeByArrCity(_, _, _)
DedupeByArrCity(js, i, map) ==
  IF i > Len(js) THEN map
  ELSE DedupeByArrCity(js, i + 1,
         KeepFaster(map, <<js[i].dep_time, cityKeyOfStop(js[i].legs[Len(js[i].legs)].to_id)>>,
                    js[i]))

\* [...map.values()]
Values(map) == [n \in DOMAIN map |-> map[n].journey]

\* .slice(0, limit)
Slice(js, limit) == SubSeq(js, 1, Min(limit, Len(js)))

\* lines 609-631
FinalList(results, limit) ==
  Slice(SortJourneys(Values(DedupeByArrCity(SortJourneys(results), 1, <<>>))), limit)

----------------------------------------------------------------------------
(* Offline ingestion (gtfs-ingest.js): one directory of schedule files per   *)
(* operator is read, each operator is ingested, the results are merged and   *)
(* written.  A row is the object readCSV makes of a line; a time string      *)
(* "H:MM:SS" is <<H, MM, SS>> or <<H, MM>> and the empty string is <<>>; a   *)
(* number field that does not parse is Null.  A date "YYYYMMDD" is one of    *)
(* the days of DayTable.  operatorId + ':' + rawId is read from a table.     *)

JUMP == 600

\* dep_time_first of a trip without any departure time
Infinity == 10 * 24 * 3600

\* Bound of the model: the number of trips of the pool a feed holds
MaxFeedTrips == 2

RawIds == {"M", "T", "L", "P", "X", "U", "R3", "R8", "R9", "u1", "u2", "u3", "u4", "u5",
           "u6", "u7", "sv1", "sv2", "unknown"}

Joined ==
  [raw \in RawIds |->
     CASE raw = "M" -> "TI:M" [] raw = "T" -> "TI:T" [] raw = "L" -> "TI:L"
       [] raw = "P" -> "TI:P" [] raw = "X" -> "TI:X" [] raw = "U" -> "TI:U"
       [] raw = "R3" -> "TI:R3" [] raw = "R8" -> "TI:R8" [] raw = "R9" -> "TI:R9"
       [] raw = "u1" -> "TI:u1" [] raw = "u2" -> "TI:u2" [] raw = "u3" -> "TI:u3"
       [] raw = "u4" -> "TI:u4" [] raw = "u5" -> "TI:u5" [] raw = "u6" -> "TI:u6"
       [] raw = "u7" -> "TI:u7" [] raw = "sv1" -> "TI:sv1" [] raw = "sv2" -> "TI:sv2"
       [] raw = "unknown" -> "TI:unknown"]

\* line 266, for the operator of the model
P(operatorId, rawId) == Joined[rawId]

\* route_id.replace(operatorId + ':', '')
Unprefixed(operatorId, id) == CHOOSE raw \in RawIds : Joined[raw] = id

\* timeToSeconds of gtfs-ingest.js, lines 26-31
gtfsTimeToSeconds(t) ==
  IF t = <<>> THEN Null
  ELSE t[1] * 3600 + t[2] * 60 + (IF Len(t) > 2 THEN t[3] ELSE 0)

\* parseInt(x) || 0
ParseInt(x) == IF x = Null THEN 0 ELSE x

\* the days the feeds speak of: the string of a day, its ISO form, its weekday
\* (Date.getDay: 0 is Sunday)
DayTable ==
  << [gtfs |-> "20250628", iso |-> "2025-06-28", dow |-> 6],
     [gtfs |-> "20250629", iso |-> "2025-06-29", dow |-> 0],
     [gtfs |-> "20250630", iso |-> "2025-06-30", dow |-> 1],
     [gtfs |-> "20250701", iso |-> "2025-07-01", dow |-> 2],
     [gtfs |-> "20250702", iso |-> "2025-07-02", dow |-> 3] >>

\* the Date of a day is its position in DayTable
DayOf(d) == CHOOSE n \in DOMAIN DayTable : DayTable[n].gtfs = d

parseGTFSDate(d) == [date |-> DayOf(d), dow |-> DayTable[DayOf(d)].dow]

DOW_KEYS == <<"sunday", "monday", "tuesday", "wednesday", "thursday", "friday", "saturday">>

\* y + '' + m + '' + d of the Date cur, lines 129-130
FormatGTFS(cur) == DayTable[cur].gtfs

\* line 139: gtfsDate.slice(0,4) + '-' + gtfsDate.slice(4,6) + '-' + gtfsDate.slice(6,8)
ToISO(gtfsDate) == DayTable[DayOf(gtfsDate)].iso

\* Array.prototype.sort with the comparator keys[a] - keys[b] is stable: item i
\* goes before item k when its key is smaller, or equal and i < k
Before(keys, i, k) == keys[i] < keys[k] \/ (keys[i] = keys[k] /\ i < k)

SortedIndices(keys) ==
  [n \in DOMAIN keys |->
     CHOOSE i \in DOMAIN keys : Cardinality({k \in DOMAIN keys : Before(keys, k, i)}) = n - 1]

SortByKeys(items, keys) == [n \in DOMAIN items |-> items[SortedIndices(keys)[n]]]

\* lines 80-100
SNCF_EXCLUDE_SHORT == {"CAR", "NAVETTE", "TRAMTRAIN"}
SNCB_KEEP_SHORT == {"IC", "EC", "NJ", "OTC"}

shouldKeepRoute(operatorId, r) ==
  CASE operatorId = "SNCF" ->
         ParseInt(r.route_type) # 3 /\ r.route_short_name \notin SNCF_EXCLUDE_SHORT
    [] operatorId = "SNCB" -> r.route_short_name \in SNCB_KEEP_SHORT
    [] OTHER -> ParseInt(r.route_type) # 3

\* lines 107-112: the services of the weekly rows that run on the day p
RECURSIVE WeeklyActive(_, _, _, _)
WeeklyActive(calendarRows, i, p, active) ==
  IF i > Len(calendarRows) THEN active
  ELSE WeeklyActive(calendarRows, i + 1, p,
         IF /\ p.date >= parseGTFSDate(calendarRows[i].start_date).date
            /\ p.date <= parseGTFSDate(calendarRows[i].end_date).date
            /\ calendarRows[i][DOW_KEYS[p.dow + 1]] = "1"
         THEN AddKey(active, calendarRows[i].service_id) ELSE active)

\* Set.delete
Delete(s, x) == SelectSeq(s, LAMBDA y : y # x)

\* the exceptions that add a service only
RECURSIVE ApplyAdditions(_, _, _, _)
ApplyAdditions(calendarDatesRows, i, gtfsDate, active) ==
  IF i > Len(calendarDatesRows) THEN active
  ELSE ApplyAdditions(calendarDatesRows, i + 1, gtfsDate,
         IF calendarDatesRows[i].date = gtfsDate /\ calendarDatesRows[i].exception_type = "1"
         THEN AddKey(active, calendarDatesRows[i].service_id) ELSE active)

\* lines 113-118
RECURSIVE ApplyExceptions(_, _, _, _)
ApplyExceptions(calendarDatesRows, i, gtfsDate, active) ==
  IF i > Len(calendarDatesRows) THEN active
  ELSE ApplyExceptions(calendarDatesRows, i + 1, gtfsDate,
         IF calendarDatesRows[i].date # gtfsDate THEN active
         ELSE IF calendarDatesRows[i].exception_type = "1"
              THEN AddKey(active, calendarDatesRows[i].service_id)
         ELSE IF calendarDatesRows[i].exception_type = "2"
              THEN Delete(active, calendarDatesRows[i].service_id)
         ELSE active)

\* lines 104-120: the active services, in the order the Set holds them
computeActiveServices(calendarRows, calendarDatesRows, gtfsDate) ==
  ApplyExceptions(calendarDatesRows, 1, gtfsDate,
                  WeeklyActive(calendarRows, 1, parseGTFSDate(gtfsDate), <<>>))

\* lines 123-134: the days of the validity intervals and of the exceptions
AllDates(calendarRows, calendarDatesRows) ==
  UNION {{FormatGTFS(cur) : cur \in parseGTFSDate(calendarRows[i].start_date).date
                                     .. parseGTFSDate(calendarRows[i].end_date).date}
           : i \in DOMAIN calendarRows}
  \cup {calendarDatesRows[i].date : i \in DOMAIN calendarDatesRows}

\* line 140: the services of the entry of gtfsDate
PrefixedServices(services, prefix) == [n \in DOMAIN services |-> P(prefix, services[n])]

\* lines 122-143
buildCalendarIndex(calendarRows, calendarDatesRows, prefix) ==
  [iso \in {ToISO(d) : d \in AllDates(calendarRows, calendarDatesRows)} |->
     PrefixedServices(
       computeActiveServices(calendarRows, calendarDatesRows,
                             CHOOSE d \in AllDates(calendarRows, calendarDatesRows) : ToISO(d) = iso),
       prefix)]

\* the last row of rows whose field key is id (a later assignment to an object key
\* replaces the earlier one)
LastRow(rows, key, id) ==
  rows[CHOOSE i \in DOMAIN rows :
         rows[i][key] = id /\ \A k \in DOMAIN rows : rows[k][key] = id => k <= i]

\* lines 289-292: the route ids kept by the long-distance filter
KeptRouteIds(operatorId, routesRawAll) ==
  {routesRawAll[i].route_id : i \in {k \in DOMAIN routesRawAll :
                                       shouldKeepRoute(operatorId, routesRawAll[k])}}

\* lines 315-321
ValidTripIds(tripsRaw, keptRouteIds) ==
  {tripsRaw[i].trip_id : i \in {k \in DOMAIN tripsRaw : tripsRaw[k].route_id \in keptRouteIds}}

\* lines 325-328
UsedStopIds(stopTimesRaw, validTripIds) ==
  {stopTimesRaw[i].stop_id : i \in {k \in DOMAIN stopTimesRaw :
                                      stopTimesRaw[k].trip_id \in validTripIds}}

\* parseFloat(x) || 0: a coordinate of stops.txt is <<>> when the field is
\* empty and <<n>> for n thousandths of a degree
ParseFloat(x) == IF x = <<>> THEN 0 ELSE x[1]

\* lines 329-338
StopsDict(operatorId, stopsRaw, usedStopIds) ==
  [sid \in {P(operatorId, stopsRaw[i].stop_id) :
              i \in {k \in DOMAIN stopsRaw : stopsRaw[k].stop_id \in usedStopIds}} |->
     [name |-> IF LastRow(stopsRaw, "stop_id", Unprefixed(operatorId, sid)).stop_name # ""
               THEN LastRow(stopsRaw, "stop_id", Unprefixed(operatorId, sid)).stop_name
               ELSE Unprefixed(operatorId, sid),
      lat |-> ParseFloat(LastRow(stopsRaw, "stop_id", Unprefixed(operatorId, sid)).stop_lat),
      lon |-> ParseFloat(LastRow(stopsRaw, "stop_id", Unprefixed(operatorId, sid)).stop_lon),
      operator |-> operatorId]]

\* lines 346-351: the stop time pushed for a row
StopTimeOf(operatorId, st) ==
  [seq |-> ParseInt(st.stop_sequence), stop_id |-> P(operatorId, st.stop_id),
   dep_time |-> gtfsTimeToSeconds(st.departure_time),
   arr_time |-> gtfsTimeToSeconds(st.arrival_time)]

\* lines 342-352: tripStops as a sequence of [trip_id, stops] in key insertion order
PushStopTime(tripStops, tripId, entry) ==
  IF \A n \in DOMAIN tripStops : tripStops[n].trip_id # tripId
  THEN Append(tripStops, [trip_id |-> tripId, stops |-> <<entry>>])
  ELSE [n \in DOMAIN tripStops |->
          IF tripStops[n].trip_id = tripId
          THEN [tripStops[n] EXCEPT !.stops = Append(@, entry)] ELSE tripStops[n]]

RECURSIVE TripStops(_, _, _, _, _)
TripStops(operatorId, stopTimesRaw, i, validTripIds, tripStops) ==
  IF i > Len(stopTimesRaw) THEN tripStops
  ELSE TripStops(operatorId, stopTimesRaw, i + 1, validTripIds,
         IF stopTimesRaw[i].trip_id \notin validTripIds THEN tripStops
         ELSE PushStopTime(tripStops, stopTimesRaw[i].trip_id,
                           StopTimeOf(operatorId, stopTimesRaw[i])))

\* a.dep_time ?? a.arr_time ?? 0
TimeKey(s) == Coalesce(s.dep_time, Coalesce(s.arr_time, 0))

\* line 356
SortBySeq(stops) == SortByKeys(stops, [i \in DOMAIN stops |-> stops[i].seq])

\* lines 389 and 392
SortByTime(stops) == SortByKeys(stops, [i \in DOMAIN stops |-> TimeKey(stops[i])])

\* lines 361-362
PrevTime(stops, i) == Coalesce(stops[i - 1].dep_time, Coalesce(stops[i - 1].arr_time, 0 - 1))

CurrTime(stops, i) ==
  Coalesce(stops[i].arr_time, Coalesce(stops[i].dep_time, PrevTime(stops, i) + 1))

\* line 363: the positions where a segment starts after a jump backward
Jumps(stops) ==
  {i \in 2..Len(stops) : PrevTime(stops, i) >= 0 /\ CurrTime(stops, i) < PrevTime(stops, i) - JUMP}

\* lines 358-368: the segments, each from a start to the position before the next
SegmentsFrom(stops, starts) ==
  [n \in 1..Cardinality(starts) |->
     SubSeq(stops,
            CHOOSE s \in starts : Cardinality({x \in starts : x < s}) = n - 1,
            (IF n = Cardinality(starts) THEN Len(stops) + 1
             ELSE CHOOSE s \in starts : Cardinality({x \in starts : x < s}) = n) - 1)]

Segments(stops) == SegmentsFrom(stops, {1} \cup Jumps(stops))

\* lines 371-375
SortSegments(segments) ==
  SortByKeys(segments, [n \in DOMAIN segments |-> TimeKey(segments[n][1])])

\* lines 380-381
LastTime(lastStop) == Coalesce(lastStop.arr_time, Coalesce(lastStop.dep_time, 0 - 1))

FirstTime(firstStop, lastTime) ==
  Coalesce(firstStop.dep_time, Coalesce(firstStop.arr_time, lastTime + 1))

\* lines 382-386 with every segment opening a group
MergeSegmentNever(mergedSegs, segment, lastGroup) == Append(mergedSegs, segment)

\* lines 382-386: the segment joins the last group or opens a new one
MergeSegment(mergedSegs, segment, lastGroup) ==
  IF FirstTime(segment[1], LastTime(lastGroup[Len(lastGroup)]))
       >= LastTime(lastGroup[Len(lastGroup)]) - JUMP
  THEN [mergedSegs EXCEPT ![Len(mergedSegs)] = lastGroup \o segment]
  ELSE Append(mergedSegs, segment)

\* lines 376-387
RECURSIVE MergeSegments(_, _, _)
MergeSegments(segments, k, mergedSegs) ==
  IF k > Len(segments) THEN mergedSegs
  ELSE MergeSegments(segments, k + 1,
                     MergeSegment(mergedSegs, segments[k], mergedSegs[Len(mergedSegs)]))

\* line 388: the longest group first
SortByLength(mergedSegs) ==
  SortByKeys(mergedSegs, [n \in DOMAIN mergedSegs |-> 0 - Len(mergedSegs[n])])

\* lines 370-390: the trip has more than one segment
RepairSegments(sorted) ==
  SortByTime(SortByLength(MergeSegments(sorted, 2, <<sorted[1]>>))[1])

\* lines 356-393: the stops of one trip
RepairStops(bySeq) ==
  IF Len(Segments(bySeq)) > 1 THEN RepairSegments(SortSegments(Segments(bySeq)))
  ELSE SortByTime(bySeq)

\* lines 355-394
RepairTrips(tripStops) ==
  [n \in DOMAIN tripStops |->
     [trip_id |-> tripStops[n].trip_id,
      stops |-> RepairStops(SortBySeq(tripStops[n].stops))]]

\* detectTrainType of gtfs-ingest.js, lines 147-203; the cases of the operators
\* whose type depends on the stop and trip ids are not in the feeds of the model
ingestTrainType(operatorId) ==
  CASE operatorId = "TI" -> "FRECCIAROSSA"
    [] operatorId = "ES" -> "EUROSTAR"
    [] OTHER -> "TRAIN"

\* line 413
FirstDep(stops) ==
  IF \A i \in DOMAIN stops : stops[i].dep_time = Null THEN Infinity
  ELSE stops[CHOOSE i \in DOMAIN stops :
               stops[i].dep_time # Null /\ \A k \in 1..(i - 1) : stops[k].dep_time = Null].dep_time

\* lines 412-422
IngestedTrip(operatorId, tripId, serviceId, stops) ==
  [trip_id |-> P(operatorId, tripId), service_id |-> serviceId,
   dep_time_first |-> FirstDep(stops), train_type |-> ingestTrainType(operatorId),
   operator |-> operatorId, stop_times |-> stops]

\* lines 407-409
NewRouteStops(routeStops, routeId, stops) ==
  IF ~Has(routeStops, routeId) \/ Len(stops) > Len(routeStops[routeId])
  THEN Put(routeStops, routeId, [i \in DOMAIN stops |-> stops[i].stop_id])
  ELSE routeStops

\* lines 410 and 415: routeTrips as a sequence of [route_id, trips] in key order
PushTrip(routeTrips_, routeId, trip) ==
  IF \A n \in DOMAIN routeTrips_ : routeTrips_[n].route_id # routeId
  THEN Append(routeTrips_, [route_id |-> routeId, trips |-> <<trip>>])
  ELSE [n \in DOMAIN routeTrips_ |->
          IF routeTrips_[n].route_id = routeId
          THEN [routeTrips_[n] EXCEPT !.trips = Append(@, trip)] ELSE routeTrips_[n]]

\* lines 424-427
NewRoutesByStop(routesByStop, routeId, stops) ==
  [sid \in (DOMAIN routesByStop) \cup {stops[i].stop_id : i \in DOMAIN stops} |->
     IF sid \in {stops[i].stop_id : i \in DOMAIN stops}
     THEN AddKey(IF Has(routesByStop, sid) THEN routesByStop[sid] ELSE <<>>, routeId)
     ELSE routesByStop[sid]]

\* lines 402-427: one trip of tripStops
AddTrip(acc, operatorId, tripId, routeId, serviceId, stops) ==
  [routeStops |-> NewRouteStops(acc.routeStops, routeId, stops),
   routeTrips |-> PushTrip(acc.routeTrips, routeId,
                           IngestedTrip(operatorId, tripId, serviceId, stops)),
   routesByStop |-> NewRoutesByStop(acc.routesByStop, routeId, stops)]

\* lines 401-428
RECURSIVE Structures(_, _, _, _, _)
Structures(operatorId, tripsRaw, tripStops, n, acc) ==
  IF n > Len(tripStops) THEN acc
  ELSE Structures(operatorId, tripsRaw, tripStops, n + 1,
         AddTrip(acc, operatorId, tripStops[n].trip_id,
                 P(operatorId, LastRow(tripsRaw, "trip_id", tripStops[n].trip_id).route_id),
                 P(operatorId, LastRow(tripsRaw, "trip_id", tripStops[n].trip_id).service_id),
                 tripStops[n].stops))

\* lines 430-432
SortRouteTrips(routeTrips_) ==
  [n \in DOMAIN routeTrips_ |->
     [route_id |-> routeTrips_[n].route_id,
      trips |-> SortByKeys(routeTrips_[n].trips,
                           [i \in DOMAIN routeTrips_[n].trips |->
                              routeTrips_[n].trips[i].dep_time_first])]]

\* line 443: what ingestOperator returns
OperatorResult(stopsDict, structures, calendarIndex_) ==
  [stopsDict |-> stopsDict, routesByStop |-> structures.routesByStop,
   routeStops |-> structures.routeStops,
   routeTrips |-> SortRouteTrips(structures.routeTrips),
   calendarIndex |-> calendarIndex_]

\* lines 312-443
IngestTrips(operatorId, dir, validTripIds) ==
  OperatorResult(
    StopsDict(operatorId, dir.stops, UsedStopIds(dir.stop_times, validTripIds)),
    Structures(operatorId, dir.trips,
               RepairTrips(TripStops(operatorId, dir.stop_times, 1, validTripIds, <<>>)), 1,
               [routeStops |-> EmptyMap, routeTrips |-> <<>>, routesByStop |-> EmptyMap]),
    buildCalendarIndex(dir.calendar, dir.calendar_dates, operatorId))

\* lines 264-444: dir holds the tables read from the directory of the operator
ingestOperator(op, dir) ==
  IngestTrips(op.id, dir, ValidTripIds(dir.trips, KeptRouteIds(op.id, dir.routes)))

\* lines 458-477: the result r is merged
MergeInto(merged, r) ==
  [stopsDict |-> r.stopsDict @@ merged.stopsDict,
   routesByStop |->
     [sid \in (DOMAIN merged.routesByStop) \cup (DOMAIN r.routesByStop) |->
        IF ~Has(r.routesByStop, sid) THEN merged.routesByStop[sid]
        ELSE IF ~Has(merged.routesByStop, sid) THEN r.routesByStop[sid]
        ELSE merged.routesByStop[sid]
               \o SelectSeq(r.routesByStop[sid],
                            LAMBDA rid : ~Includes(merged.routesByStop[sid], rid))],
   routeStops |-> r.routeStops @@ merged.routeStops,
   routeTrips |->
     [n \in DOMAIN merged.routeTrips |->
        IF \E k \in DOMAIN r.routeTrips : r.routeTrips[k].route_id = merged.routeTrips[n].route_id
        THEN r.routeTrips[CHOOSE k \in DOMAIN r.routeTrips :
                            r.routeTrips[k].route_id = merged.routeTrips[n].route_id]
        ELSE merged.routeTrips[n]]
     \o SelectSeq(r.routeTrips,
                  LAMBDA e : \A n \in DOMAIN merged.routeTrips :
                               merged.routeTrips[n].route_id # e.route_id),
   calendarIndex |->
     [iso \in (DOMAIN merged.calendarIndex) \cup (DOMAIN r.calendarIndex) |->
        (IF Has(merged.calendarIndex, iso) THEN merged.calendarIndex[iso] ELSE <<>>)
        \o (IF Has(r.calendarIndex, iso) THEN r.calendarIndex[iso] ELSE <<>>)]]

NoArtifacts ==
  [stopsDict |-> EmptyMap, routesByStop |-> EmptyMap, routeStops |-> EmptyMap,
   routeTrips |-> <<>>, calendarIndex |-> EmptyMap]

\* lines 448-486
RECURSIVE mergeResults(_, _, _)
mergeResults(results, n, merged) ==
  IF n > Len(results) THEN merged
  ELSE mergeResults(results, n + 1, MergeInto(merged, results[n]))

\* Object.keys(stopsDict): the ids in the order of their first insertion, which
\* is the order of the operators and of the rows of their stops.txt
StopKeys(operators, dirs, stopsDict) ==
  Dedup(Flatten([n \in DOMAIN operators |->
           SelectSeq([i \in DOMAIN dirs[operators[n].gtfs_dir].stops |->
                        P(operators[n].id, dirs[operators[n].gtfs_dir].stops[i].stop_id)],
                     LAMBDA sid : Has(stopsDict, sid))]))

\* lines 205-212, in metres, for two points of one meridian: the formula is then
\* R times the difference of the latitudes in radians, 111194.9 m for a degree
haversine(lat1, lon1, lat2, lon2) ==
  (111195 * (IF lat1 >= lat2 THEN lat1 - lat2 ELSE lat2 - lat1)) \div 1000

\* line 227
Near(stopsDict, a, b) ==
  haversine(stopsDict[a].lat, stopsDict[a].lon, stopsDict[b].lat, stopsDict[b].lon) < 300

\* lines 222-234: every pair is met once, the stop of smaller index first
GpsLinks(ids, stopsDict) ==
  [a \in {x \in Range(ids) : \E y \in Range(ids) : y # x /\ Near(stopsDict, x, y)} |->
     SelectSeq(ids, LAMBDA b : b # a /\ Near(stopsDict, a, b))]

\* lines 247-252 with only the first id of the station pushed
PushOnlyFirst(list, idA, stopIds, n, stopsDict) ==
  IF idA # stopIds[1] /\ Has(stopsDict, stopIds[1]) /\ ~Includes(list, stopIds[1])
  THEN Append(list, stopIds[1]) ELSE list

\* lines 247-252: the ids of the station pushed to the list of idA
RECURSIVE PushNew(_, _, _, _, _)
PushNew(list, idA, stopIds, n, stopsDict) ==
  IF n > Len(stopIds) THEN list
  ELSE PushNew(IF idA # stopIds[n] /\ Has(stopsDict, stopIds[n]) /\ ~Includes(list, stopIds[n])
               THEN Append(list, stopIds[n]) ELSE list,
               idA, stopIds, n + 1, stopsDict)

\* lines 244-253
RECURSIVE LinkStops(_, _, _, _)
LinkStops(tIndex, stopIds, k, stopsDict) ==
  IF k > Len(stopIds) THEN tIndex
  ELSE LinkStops(IF ~Has(stopsDict, stopIds[k]) THEN tIndex
                 ELSE Put(tIndex, stopIds[k],
                          PushNew(IF Has(tIndex, stopIds[k]) THEN tIndex[stopIds[k]] ELSE <<>>,
                                  stopIds[k], stopIds, 1, stopsDict)),
                 stopIds, k + 1, stopsDict)

\* lines 242-254: a station of stations.json is {name, city, country, stopIds}
RECURSIVE ManualLinks(_, _, _, _)
ManualLinks(tIndex, stations, n, stopsDict) ==
  IF n > Len(stations) THEN tIndex
  ELSE ManualLinks(IF Len(stations[n].stopIds) < 2 THEN tIndex
                   ELSE LinkStops(tIndex, stations[n].stopIds, 1, stopsDict),
                   stations, n + 1, stopsDict)

\* lines 216-260: manifest is stations.json, or says that the file does not
\* exist; the lists hold stop ids
TransferLists(ids, stopsDict, manifest) ==
  IF manifest.exists
  THEN ManualLinks(GpsLinks(ids, stopsDict), manifest.stations, 1, stopsDict)
  ELSE GpsLinks(ids, stopsDict)

\* every entry pushed at lines 230, 231 and 249 is a string
buildTransferIndex(ids, stopsDict, manifest) ==
  [sid \in DOMAIN TransferLists(ids, stopsDict, manifest) |->
     [n \in DOMAIN TransferLists(ids, stopsDict, manifest)[sid] |->
        Str(TransferLists(ids, stopsDict, manifest)[sid][n])]]

\* main, lines 519-538: the files written
Files(merged, operators, dirs, manifest) ==
  [transferIndex |->
     buildTransferIndex(StopKeys(operators, dirs, merged.stopsDict), merged.stopsDict, manifest)]
  @@ merged

----------------------------------------------------------------------------
(* The feeds.  One operator, TI; its directory holds the rows of at most     *)
(* MaxFeedTrips trips of FeedTrips and a calendar made of rows of            *)
(* WeeklyRows and of Exceptions.                                             *)

StopTimeRow(trip, seq, stop, arr, dep) ==
  [trip_id |-> trip, stop_sequence |-> seq, stop_id |-> stop,
   arrival_time |-> arr, departure_time |-> dep]

TripRow(trip, route, service) ==
  [trip_id |-> trip, route_id |-> route, service_id |-> service, trip_headsign |-> ""]

\* u1: three stops in order.  u2: the same route over other stops.  u3: a
\* rotation of two days in one trip, the clock going back between seq 38 and 39.
\* u4: an arrival five minutes before the departure of the stop before.  u5: a
\* stop that stops.txt does not list.  u6: a trip of a bus route.  u7: rows out
\* of sequence order, and times left empty.
FeedTrips ==
  << [trip |-> TripRow("u1", "R8", "sv1"),
      stop_times |-> << StopTimeRow("u1", 1, "M", <<11, 0, 0>>, <<11, 0, 0>>),
                        StopTimeRow("u1", 2, "T", <<12, 10, 0>>, <<12, 15, 0>>),
                        StopTimeRow("u1", 3, "L", <<14, 0, 0>>, <<14, 0, 0>>) >>],
     [trip |-> TripRow("u2", "R8", "sv1"),
      stop_times |-> << StopTimeRow("u2", 1, "T", <<15, 0, 0>>, <<15, 0, 0>>),
                        StopTimeRow("u2", 2, "P", <<19, 0, 0>>, <<19, 0, 0>>) >>],
     [trip |-> TripRow("u3", "R8", "sv2"),
      stop_times |-> << StopTimeRow("u3", 5, "P", <<11, 36, 0>>, <<11, 36, 0>>),
                        StopTimeRow("u3", 24, "L", <<12, 22, 0>>, <<12, 22, 0>>),
                        StopTimeRow("u3", 38, "T", <<13, 11, 0>>, <<13, 11, 0>>),
                        StopTimeRow("u3", 39, "T", <<6, 30, 0>>, <<6, 30, 0>>),
                        StopTimeRow("u3", 90, "M", <<8, 31, 0>>, <<8, 31, 0>>) >>],
     [trip |-> TripRow("u4", "R9", "sv1"),
      stop_times |-> << StopTimeRow("u4", 1, "M", <<9, 0, 0>>, <<9, 0, 0>>),
                        StopTimeRow("u4", 2, "T", <<8, 55, 0>>, <<9, 2, 0>>),
                        StopTimeRow("u4", 3, "L", <<10, 0, 0>>, <<10, 0, 0>>) >>],
     [trip |-> TripRow("u5", "R9", "sv2"),
      stop_times |-> << StopTimeRow("u5", 1, "M", <<10, 0, 0>>, <<10, 0, 0>>),
                        StopTimeRow("u5", 2, "X", <<11, 0, 0>>, <<11, 0, 0>>) >>],
     [trip |-> TripRow("u6", "R3", "sv1"),
      stop_times |-> << StopTimeRow("u6", 1, "M", <<6, 0, 0>>, <<6, 0, 0>>),
                        StopTimeRow("u6", 2, "U", <<7, 0, 0>>, <<7, 0, 0>>) >>],
     [trip |-> TripRow("u7", "R9", "sv1"),
      stop_times |-> << StopTimeRow("u7", 2, "T", <<>>, <<>>),
                        StopTimeRow("u7", 1, "M", <<>>, <<8, 0>>),
                        StopTimeRow("u7", 3, "L", <<10, 0>>, <<>>) >>] >>

StopRow(id, name) == [stop_id |-> id, stop_name |-> name, stop_lat |-> <<>>, stop_lon |-> <<>>]

StopsFile ==
  <<StopRow("M", "Milano"), StopRow("T", "Torino"), StopRow("L", "Lyon"),
    StopRow("P", "Paris"), StopRow("U", "Susa")>>

RouteRow(id, short, type) == [route_id |-> id, route_short_name |-> short, route_type |-> type]

RoutesFile == <<RouteRow("R8", "FR", 2), RouteRow("R9", "FR", 2), RouteRow("R3", "BUS", 3)>>

Flag(b) == IF b THEN "1" ELSE "0"

WeeklyRow(service, start, end, days) ==
  [service_id |-> service, start_date |-> start, end_date |-> end,
   sunday |-> Flag("sunday" \in days), monday |-> Flag("monday" \in days),
   tuesday |-> Flag("tuesday" \in days), wednesday |-> Flag("wednesday" \in days),
   thursday |-> Flag("thursday" \in days), friday |-> Flag("friday" \in days),
   saturday |-> Flag("saturday" \in days)]

WeeklyRows ==
  << WeeklyRow("sv1", "20250629", "20250701", {"sunday", "monday"}),
     WeeklyRow("sv2", "20250630", "20250630", {"monday"}),
     WeeklyRow("sv1", "20250701", "20250702", {"tuesday"}) >>

ExceptionRow(service, date, type) ==
  [service_id |-> service, date |-> date, exception_type |-> type]

Exceptions ==
  << ExceptionRow("sv1", "20250630", "2"), ExceptionRow("sv2", "20250702", "1"),
     ExceptionRow("sv1", "20250630", "1") >>

\* the rows of pool at the positions K, in the order of the pool
Pick(pool, K) == SelectSeq(pool, LAMBDA x : \E i \in K : pool[i] = x)

Directory(trips, weekly, exceptions) ==
  [stop_times |-> Flatten([n \in DOMAIN trips |-> trips[n].stop_times]),
   trips |-> [n \in DOMAIN trips |-> trips[n].trip],
   stops |-> StopsFile, routes |-> RoutesFile,
   calendar |-> weekly, calendar_dates |-> exceptions]

Operators == <<[id |-> "TI", name |-> "Trenitalia France", gtfs_dir |-> "./gtfs/trenitalia"]>>

\* stations.json beside the script: absent, or a list of stations
NoManifest == [exists |-> FALSE, stations |-> <<>>]

Feeds ==
  {[operators |-> Operators,
    dirs |-> ("./gtfs/trenitalia" :>
                Directory(Pick(FeedTrips, K), Pick(WeeklyRows, W), Pick(Exceptions, X))),
    manifest |-> NoManifest] :
     K \in {S \in SUBSET (DOMAIN FeedTrips) : S # {} /\ Cardinality(S) <= MaxFeedTrips},
     W \in SUBSET (DOMAIN WeeklyRows), X \in SUBSET (DOMAIN Exceptions)}

NoFeed == [operators |-> <<>>, dirs |-> EmptyMap, manifest |-> NoManifest]

----------------------------------------------------------------------------
(* The server: startup, then one request at a time (the handlers are        *)
(* synchronous).  SearchStep is one iteration of the loop of searchJourneys. *)

Query(from, to, time, date, types) ==
  [from |-> from, to |-> to, time |-> time, date |-> date, offset |-> 0,
   after_dep |-> 0, limit |-> 8, train_types |-> types]

\* q.from, q.time and q.date of the search requests, q.train_types for some of them
Requests ==
  {Query(<<A>>, <<D>>, <<7, 0>>, date, NoFilter) : date \in {NoDate, June15, Nov15}}
  \cup {Query(<<A>>, <<D>>, <<8, 0>>, NoDate, NoFilter)}
  \cup {Query(<<A>>, <<D>>, <<7, 0>>, NoDate, Only({"INOUI"}))}
  \cup {Query(<<M>>, <<D>>, <<12, 0>>, date, NoFilter) : date \in {NoDate, June15, Nov15}}
  \cup {Query(<<A>>, <<>>, <<8, 0>>, NoDate, NoFilter)}

\* q.from and q.date of the explore requests
ExploreRequests ==
  {[from |-> <<A>>, date |-> date] : date \in {NoDate, June15, Nov15}}
  \cup {[from |-> <<B>>, date |-> NoDate]}
  \cup {[from |-> <<>>, date |-> NoDate]}

NoCall == [start |-> Null, seeds |-> EmptyMap, originSet |-> {}, tau_best |-> EmptyMap,
           parent |-> EmptyMap, rounds |-> <<>>, results |-> <<>>]

NoSearch == [originIds |-> <<>>, destIds |-> <<>>, startTime |-> Null, stt |-> EmptyMap,
             limit |-> 0, dateISO |-> NoDate, allowedTypes |-> NoFilter,
             seen |-> {}, results |-> <<>>, t |-> Null, noNewCount |-> 0,
             broke |-> FALSE, calls |-> <<>>]

NoRequest == [path |-> "", q |-> <<>>]

NoResponse == [status |-> 0, journeys |-> <<>>, last_dep_time |-> Null, next_offset |-> Null]

Init ==
  /\ routeTrips \in Timetables
  /\ transferIndex = TransferIndex0
  /\ calendarIndex = CalendarIndex0
  /\ stopsIndex = StopsIndex0
  /\ globalStopToTrips = buildStopToTrips(routeTrips)
  /\ dateCache = <<>>
  /\ pc = "idle"
  /\ sj = NoSearch
  /\ core = NoCall
  /\ req = NoRequest
  /\ response = NoResponse
  /\ feed = NoFeed
  /\ ingested = <<>>
  /\ artifacts = NoArtifacts

\* lines 808-820: the locals of searchJourneys at its first test
SearchWith(q, fd, startSec) ==
  /\ dateCache' = fd.cache
  /\ sj' = [originIds |-> resolveStopIds(Dedup(q.from), "origin"),
            destIds |-> resolveStopIds(Dedup(q.to), "dest"),
            startTime |-> startSec, stt |-> fd.stopToTrips,
            limit |-> Min(q.limit, 32), dateISO |-> q.date,
            allowedTypes |-> q.train_types,
            seen |-> {}, results |-> <<>>, t |-> startSec, noNewCount |-> 0,
            broke |-> FALSE, calls |-> <<>>]
  /\ pc' = "search"
  /\ core' = NoCall
  /\ response' = NoResponse

\* /api/search, lines 790-820, up to the first test of the loop of searchJourneys
Search(q) ==
  /\ pc = "idle"
  /\ req' = [path |-> "/api/search", q |-> q]
  /\ IF q.from = <<>> \/ q.to = <<>>
     THEN /\ response' = [NoResponse EXCEPT !.status = 400]
          /\ UNCHANGED <<dateCache, pc, sj, core>>
     ELSE SearchWith(q, getFilteredData(q.date),
                     Max(timeToSeconds(q.time) + q.offset, q.after_dep))
  /\ UNCHANGED <<data, offline>>

\* the test of line 584, and the break of line 605
Looping == ~sj.broke /\ Len(sj.results) < sj.limit /\ sj.t <= sj.startTime + HORIZON

\* the labels of the destinations a call ends with
Arrivals(call, destIds) ==
  [d \in Range(destIds) \cap DOMAIN call.tau_best |-> call.tau_best[d]]

\* the start time moves only after a batch with a new journey
AdvanceOnlyFound(call, acc) ==
  /\ core' = call
  /\ sj' = IF acc.maxDepThis >= 0
           THEN [sj EXCEPT !.seen = acc.seen, !.results = acc.results,
                           !.t = acc.maxDepThis + 1, !.noNewCount = 0,
                           !.calls = Append(@, [start |-> sj.t,
                                                arrivals |-> Arrivals(call, sj.destIds),
                                                found |-> Len(acc.results) - Len(sj.results)])]
           ELSE sj

\* the next start time is the last departure found
AdvanceToDeparture(call, acc) ==
  /\ core' = call
  /\ sj' = [sj EXCEPT
              !.seen = acc.seen,
              !.results = acc.results,
              !.t = IF acc.maxDepThis >= 0 THEN acc.maxDepThis ELSE sj.t + EMPTY_ADVANCE,
              !.noNewCount = IF acc.maxDepThis >= 0 THEN 0 ELSE sj.noNewCount + 1,
              !.broke = /\ acc.maxDepThis < 0
                        /\ sj.noNewCount + 1 >= MAX_EMPTY
                        /\ Len(acc.results) > 0,
              !.calls = Append(@, [start |-> sj.t, arrivals |-> Arrivals(call, sj.destIds),
                                   found |-> Len(acc.results) - Len(sj.results)])]

\* lines 599-606: acc is what the batch of the call left
Advance(call, acc) ==
  /\ core' = call
  /\ sj' = [sj EXCEPT
              !.seen = acc.seen,
              !.results = acc.results,
              !.t = IF acc.maxDepThis >= 0 THEN acc.maxDepThis + 1 ELSE sj.t + EMPTY_ADVANCE,
              !.noNewCount = IF acc.maxDepThis >= 0 THEN 0 ELSE sj.noNewCount + 1,
              !.broke = /\ acc.maxDepThis < 0
                        /\ sj.noNewCount + 1 >= MAX_EMPTY
                        /\ Len(acc.results) > 0,
              !.calls = Append(@, [start |-> sj.t, arrivals |-> Arrivals(call, sj.destIds),
                                   found |-> Len(acc.results) - Len(sj.results)])]

\* lines 587-597
Batch(call) ==
  Advance(call, TakeBatch(call.results, 1, sj.startTime, sj.allowedTypes,
                          [seen |-> sj.seen, results |-> sj.results, maxDepThis |-> 0 - 1]))

\* lines 585-606
SearchStep ==
  /\ pc = "search"
  /\ Looping
  /\ Batch(raptorCore(sj.originIds, Dest(sj.destIds), sj.t, sj.stt, sj.dateISO))
  /\ UNCHANGED <<data, offline, dateCache, pc, req, response>>

\* line 823
LastDep(journeys, startSec) ==
  IF journeys = <<>> THEN startSec
  ELSE CHOOSE d \in {journeys[n].dep_time : n \in DOMAIN journeys} :
         \A n \in DOMAIN journeys : journeys[n].dep_time <= d

\* lines 823-832
SearchResponse(journeys, lastDep) ==
  [status |-> 200, journeys |-> journeys, last_dep_time |-> lastDep,
   next_offset |-> lastDep - timeToSeconds(req.q.time)]

\* lines 609-631 and 823-832; the locals of searchJourneys end with the call
Respond ==
  /\ pc = "search"
  /\ ~Looping
  /\ response' = SearchResponse(FinalList(sj.results, sj.limit),
                                LastDep(FinalList(sj.results, sj.limit), sj.startTime))
  /\ pc' = "idle"
  /\ sj' = NoSearch
  /\ core' = NoCall
  /\ UNCHANGED <<data, offline, dateCache, req>>

\* the departure slots of /api/explore, line 854
Slots == <<<<5, 0>>, <<7, 0>>, <<9, 0>>, <<11, 0>>, <<13, 0>>, <<15, 0>>, <<17, 0>>, <<19, 0>>>>

\* lines 865-867: bestByStop as a sequence of [sid, journey] in key insertion order
KeepBest(best, sid, j) ==
  IF \A n \in DOMAIN best : best[n].sid # sid THEN Append(best, [sid |-> sid, journey |-> j])
  ELSE [n \in DOMAIN best |->
          IF best[n].sid = sid /\ j.duration < best[n].journey.duration
          THEN [sid |-> sid, journey |-> j] ELSE best[n]]

\* lines 859-868
RECURSIVE BestOfReached(_, _, _, _)
BestOfReached(reached, i, originSet, best) ==
  IF i > Len(reached) THEN best
  ELSE BestOfReached(reached, i + 1, originSet,
         IF reached[i].legs[Len(reached[i].legs)].to_id \in originSet THEN best
         ELSE KeepBest(best, reached[i].legs[Len(reached[i].legs)].to_id, reached[i]))

\* lines 857-869
RECURSIVE BestBySlot(_, _, _, _, _)
BestBySlot(i, uniqueFrom, stt, dateISO, best) ==
  IF i > Len(Slots) THEN best
  ELSE BestBySlot(i + 1, uniqueFrom, stt, dateISO,
         BestOfReached(raptorCore(uniqueFrom, NoDest, timeToSeconds(Slots[i]), stt,
                                  dateISO).results,
                       1, Range(uniqueFrom), best))

\* lines 885-898: every stop of this model belongs to a station with coordinates,
\* so the lookup by stop id answers and the lookup by name is not reached
WithCoords(sid, j) ==
  IF \A n \in DOMAIN stopsIndex : ~Includes(stopsIndex[n].stopIds, sid) THEN j
  ELSE [x \in (DOMAIN j) \cup {"dest_lat", "dest_lon"} |->
          IF x = "dest_lat"
          THEN stopsIndex[CHOOSE n \in DOMAIN stopsIndex :
                            /\ Includes(stopsIndex[n].stopIds, sid)
                            /\ \A k \in 1..(n - 1) : ~Includes(stopsIndex[k].stopIds, sid)].lat
          ELSE IF x = "dest_lon"
          THEN stopsIndex[CHOOSE n \in DOMAIN stopsIndex :
                            /\ Includes(stopsIndex[n].stopIds, sid)
                            /\ \A k \in 1..(n - 1) : ~Includes(stopsIndex[k].stopIds, sid)].lon
          ELSE j[x]]

\* lines 883-902: the body of the response
ExploreResponse(best) ==
  [NoResponse EXCEPT
     !.status = 200,
     !.journeys = [n \in DOMAIN best |-> WithCoords(best[n].sid, best[n].journey)]]

\* lines 851-902
ExploreWith(q, fd) ==
  /\ dateCache' = fd.cache
  /\ response' = ExploreResponse(BestBySlot(1, resolveStopIds(Dedup(q.from), "origin"),
                                            fd.stopToTrips, q.date, <<>>))

\* /api/explore, lines 842-903
Explore(q) ==
  /\ pc = "idle"
  /\ req' = [path |-> "/api/explore", q |-> q]
  /\ IF q.from = <<>>
     THEN /\ response' = [NoResponse EXCEPT !.status = 400]
          /\ UNCHANGED dateCache
     ELSE ExploreWith(q, getFilteredData(q.date))
  /\ UNCHANGED <<data, offline, pc, sj, core>>

\* q.route, q.stop and q.date of the debug requests
DebugRequests ==
  {[route |-> "SNCF:R2", stop |-> "", date |-> date] : date \in {NoDate, June15}}
  \cup {[route |-> "", stop |-> A, date |-> date] : date \in {NoDate, June15, Nov15}}
  \cup {[route |-> "", stop |-> "", date |-> NoDate]}

\* lines 318-322: null, or the set of the services of the date
getActiveServices(dateISO) ==
  IF dateISO = NoDate \/ dateISO \notin DOMAIN calendarIndex
  THEN [null |-> TRUE, services |-> {}]
  ELSE [null |-> FALSE, services |-> calendarIndex[dateISO]]

\* lines 914-924: a new object for the trip and for each of its stop times
DebugTrip(t) ==
  [trip_id |-> t.trip_id, service_id |-> t.service_id,
   stop_times |-> [i \in DOMAIN t.stop_times |->
                     [stop_id |-> t.stop_times[i].stop_id,
                      dep |-> secondsToHHMM(t.stop_times[i].dep_time),
                      arr |-> secondsToHHMM(t.stop_times[i].arr_time),
                      dep_raw |-> t.stop_times[i].dep_time]]]

\* lines 911-924
DebugRoute(routeId, dateISO) ==
  LET at == Filter(routeTrips, LAMBDA r : r.route_id = routeId)
      tripsForRoute == IF at = <<>> THEN <<>> ELSE at[1].trips
      active == getActiveServices(dateISO)
      filtered == IF ~active.null
                  THEN Filter(tripsForRoute, LAMBDA t : t.service_id \in active.services)
                  ELSE tripsForRoute
  IN [n \in DOMAIN filtered |-> DebugTrip(filtered[n])]

\* lines 931-940: the object made of one entry
DebugDeparture(entry) ==
  LET st == TripById(entry.trip).stop_times[entry.idx]
  IN [route_id |-> entry.routeId, trip_id |-> entry.trip,
      service_id |-> TripById(entry.trip).service_id,
      dep |-> secondsToHHMM(Coalesce(st.dep_time, st.arr_time)),
      dep_raw |-> Coalesce(st.dep_time, st.arr_time)]

DepRaws(out) == [n \in DOMAIN out |-> Coalesce(out[n].dep_raw, 0)]

\* lines 930-941 with the sort applied to the array entries itself
DebugStopInPlace(entries) ==
  LET out == [n \in DOMAIN entries |-> DebugDeparture(entries[n])]
  IN [departures |-> SortByKeys(out, DepRaws(out)),
      entries |-> SortByKeys(entries, DepRaws(out))]

\* lines 930-941: entries.map makes a new array and sort orders that one in
\* place; the array stopToTrips[stopId] is left as it was
DebugStop(entries) ==
  LET out == [n \in DOMAIN entries |-> DebugDeparture(entries[n])]
  IN [departures |-> SortByKeys(out, DepRaws(out)), entries |-> entries]

\* the index stt with the array at stopId as the handler left it
Left(stt, stopId, entries) ==
  IF stopId \in DOMAIN stt THEN [stt EXCEPT ![stopId] = entries] ELSE stt

\* getFilteredData returns globalStopToTrips itself, not a copy (lines 327, 331)
ReturnsGlobal(dateISO) ==
  dateISO = NoDate \/ (~CacheHas(dateCache, dateISO) /\ dateISO \notin DOMAIN calendarIndex)

\* lines 928-943: the array the handler sorts belongs to the index getFilteredData
\* returned, which is the global index or the entry of the date in the cache
DebugStopWith(q, fd, r) ==
  /\ response' = [status |-> 200, departures |-> r.departures] @@ NoResponse
  /\ IF ReturnsGlobal(q.date)
     THEN /\ globalStopToTrips' = Left(globalStopToTrips, q.stop, r.entries)
          /\ dateCache' = fd.cache
     ELSE /\ globalStopToTrips' = globalStopToTrips
          /\ dateCache' = [fd.cache EXCEPT ![CacheGet(fd.cache, q.date)].stopToTrips =
                                              Left(fd.stopToTrips, q.stop, r.entries)]

\* /api/debug/trips, lines 905-946
Debug(q) ==
  /\ pc = "idle"
  /\ req' = [path |-> "/api/debug/trips", q |-> q]
  /\ IF q.route # ""
     THEN /\ response' = [status |-> 200, trips |-> DebugRoute(q.route, q.date)] @@ NoResponse
          /\ UNCHANGED <<globalStopToTrips, dateCache>>
     ELSE IF q.stop # ""
     THEN DebugStopWith(q, getFilteredData(q.date),
                        DebugStop(EntriesAt(getFilteredData(q.date).stopToTrips, q.stop)))
     ELSE /\ response' = [NoResponse EXCEPT !.status = 400]
          /\ UNCHANGED <<globalStopToTrips, dateCache>>
  /\ UNCHANGED <<routeTrips, transferIndex, calendarIndex, stopsIndex, offline, pc, sj, core>>

Next ==
  \/ \E q \in Requests : Search(q)
  \/ SearchStep
  \/ Respond
  \/ \E q \in ExploreRequests : Explore(q)
  \/ \E q \in DebugRequests : Debug(q)

Spec == Init /\ [][Next]_vars

\* The handler of /api/search runs searchJourneys to its end within one turn of
\* the event loop: an iteration that can be taken is taken, and the response
\* is sent once the loop has ended.  That is weak fairness of SearchStep and of
\* Respond.  A step that leaves pc at "search" is a SearchStep and a step from
\* "search" to "idle" is a Respond; SearchStep is enabled exactly when the test
\* of the loop holds, Respond exactly when it fails.  The two conditions are
\* written with these enabling conditions in place of ENABLED.
Iteration == pc = "search" /\ Looping /\ pc' = "search"

EndOfLoop == pc = "search" /\ ~Looping /\ pc' = "idle"

FairSpec ==
  /\ Spec
  /\ ([]<>~(pc = "search" /\ Looping)) \/ ([]<><<Iteration>>_vars)
  /\ WF_pc(EndOfLoop)

----------------------------------------------------------------------------
(* The run of gtfs-ingest.js *)

\* before the run of gtfs-ingest.js: nothing is ingested, nothing is written, and
\* no server runs
IngestInit ==
  /\ feed \in Feeds
  /\ ingested = <<>>
  /\ artifacts = NoArtifacts
  /\ routeTrips = <<>>
  /\ transferIndex = EmptyMap
  /\ calendarIndex = EmptyMap
  /\ stopsIndex = <<>>
  /\ globalStopToTrips = EmptyMap
  /\ dateCache = <<>>
  /\ pc = "ingest"
  /\ sj = NoSearch
  /\ core = NoCall
  /\ req = NoRequest
  /\ response = NoResponse

\* main, lines 512-516: the next operator is ingested
Ingest ==
  /\ pc = "ingest"
  /\ Len(ingested) < Len(feed.operators)
  /\ ingested' = Append(ingested,
                        ingestOperator(feed.operators[Len(ingested) + 1],
                                       feed.dirs[feed.operators[Len(ingested) + 1].gtfs_dir]))
  /\ UNCHANGED <<data, feed, artifacts, dateCache, pc, sj, core, req, response>>

\* main, lines 519-538: the results are merged and the files are written
Write ==
  /\ pc = "ingest"
  /\ Len(ingested) = Len(feed.operators)
  /\ artifacts' = Files(mergeResults(ingested, 1, NoArtifacts),
                        feed.operators, feed.dirs, feed.manifest)
  /\ pc' = "written"
  /\ UNCHANGED <<data, feed, ingested, dateCache, sj, core, req, response>>

IngestNext == Ingest \/ Write

IngestSpec == IngestInit /\ [][IngestNext]_vars

----------------------------------------------------------------------------
(* The collection of journeys at the end of a round, over any parent map:   *)
(* every stop of WalkStops has no parent, or a ride or a transfer from any  *)
(* stop, itself included.                                                   *)

WalkStops == <<A, E, D, F>>

WalkOrigins == {A}

WalkTrip(sid) ==
  Trip(CASE sid = A -> "SNCF:w1" [] sid = E -> "SNCF:w2" [] sid = D -> "SNCF:w3"
         [] OTHER -> "SNCF:w4",
       "SNCF:sv1", "TER", OpSNCF, <<>>)

\* what a choice writes in parent[sid]
WalkParent(sid, choice) ==
  IF choice.is_transfer THEN TransferParent(choice.from_stop, HM(8, 0), HM(8, 3))
  ELSE RideParent(choice.from_stop, WalkTrip(sid), "SNCF:RW", HM(8, 0), HM(9, 0))

WalkChoices ==
  {[given |-> FALSE, from_stop |-> "", is_transfer |-> FALSE]}
  \cup {[given |-> TRUE, from_stop |-> x, is_transfer |-> b] : x \in Range(WalkStops), b \in BOOLEAN}

ParentMaps ==
  {[sid \in {x \in Range(WalkStops) : ch[x].given} |-> WalkParent(sid, ch[sid])] :
     ch \in [Range(WalkStops) -> WalkChoices]}

\* the search state at the end of a round in which every stop was improved
WalkState(parent) ==
  [tau_best |-> [sid \in Range(WalkStops) |-> HM(9, 0)], parent |-> parent,
   originSet |-> WalkOrigins, marked |-> <<>>,
   tau_cur |-> [sid \in Range(WalkStops) |-> HM(9, 0)], curKeys |-> WalkStops]

WalkInit ==
  /\ core \in {[NoCall EXCEPT !.parent = pm, !.originSet = WalkOrigins] : pm \in ParentMaps}
  /\ sj = [NoSearch EXCEPT !.destIds = <<D, F, E>>]
  /\ pc = "round"
  /\ routeTrips = <<>>
  /\ transferIndex = EmptyMap
  /\ calendarIndex = EmptyMap
  /\ stopsIndex = <<>>
  /\ globalStopToTrips = EmptyMap
  /\ dateCache = <<>>
  /\ req = NoRequest
  /\ response = NoResponse
  /\ feed = NoFeed
  /\ ingested = <<>>
  /\ artifacts = NoArtifacts

\* raptorCore, lines 526-537: the journeys of the destinations the round improved
CollectJourneys ==
  /\ pc = "round"
  /\ core' = [core EXCEPT !.results = CollectDest(sj.destIds, 1, EmptyMap, WalkState(core.parent),
                                                  <<>>, NoDate)]
  /\ pc' = "collected"
  /\ UNCHANGED <<data, offline, dateCache, sj, req, response>>

\* raptorCore, lines 538-549: the journeys of the stops the round improved
CollectReached ==
  /\ pc = "round"
  /\ core' = [core EXCEPT !.results = CollectAll(WalkStops, 1, EmptyMap, WalkState(core.parent),
                                                 [results |-> <<>>, collected |-> {}],
                                                 NoDate).results]
  /\ pc' = "reached"
  /\ UNCHANGED <<data, offline, dateCache, sj, req, response>>

WalkNext == CollectJourneys \/ CollectReached

WalkSpec == WalkInit /\ [][WalkNext]_vars

----------------------------------------------------------------------------
(* The run of gtfs-ingest.js over one trip whose stop times are any list of  *)
(* at most MaxStops rows with the times of RepairTimes, the sequence numbers *)
(* of the rows going up or down; and over the rotations u3 of FeedTrips and  *)
(* LateStart.                                                                *)

\* Bound of the model: the number of stop times of the trip
MaxStops == 3

\* arrival_time and departure_time of a row
RepairTimes ==
  {<<t, t>> : t \in {<<6, 19, 0>>, <<6, 20, 0>>, <<6, 30, 0>>, <<13, 11, 0>>}}
  \cup {<<<<6, 19, 0>>, <<6, 30, 0>>>>}

\* a rotation whose second part starts a minute before the first and ends
\* after it
LateStart ==
  <<<<<<6, 20, 0>>, <<6, 20, 0>>>>, <<<<6, 30, 0>>, <<6, 30, 0>>>>,
    <<<<8, 31, 0>>, <<8, 31, 0>>>>, <<<<6, 19, 0>>, <<6, 19, 0>>>>,
    <<<<13, 11, 0>>, <<13, 11, 0>>>>>>

RepairStopIds == <<"M", "T", "L", "P", "T">>

RepairRows(times, up) ==
  [i \in DOMAIN times |->
     StopTimeRow("u3", IF up THEN i ELSE Len(times) + 1 - i, RepairStopIds[i],
                 times[i][1], times[i][2])]

RepairTrips_ ==
  {[trip |-> TripRow("u3", "R8", "sv2"), stop_times |-> RepairRows(times, up)] :
     times \in UNION {[1..n -> RepairTimes] : n \in 1..MaxStops}, up \in BOOLEAN}
  \cup {FeedTrips[3],
         [trip |-> TripRow("u3", "R8", "sv2"), stop_times |-> RepairRows(LateStart, TRUE)]}

RepairFeeds ==
  {[operators |-> Operators,
    dirs |-> ("./gtfs/trenitalia" :> Directory(<<t>>, <<>>, <<>>)),
    manifest |-> NoManifest] : t \in RepairTrips_}

RepairInit ==
  /\ feed \in RepairFeeds
  /\ ingested = <<>>
  /\ artifacts = NoArtifacts
  /\ routeTrips = <<>>
  /\ transferIndex = EmptyMap
  /\ calendarIndex = EmptyMap
  /\ stopsIndex = <<>>
  /\ globalStopToTrips = EmptyMap
  /\ dateCache = <<>>
  /\ pc = "ingest"
  /\ sj = NoSearch
  /\ core = NoCall
  /\ req = NoRequest
  /\ response = NoResponse

RepairSpec == RepairInit /\ [][IngestNext]_vars

----------------------------------------------------------------------------
(* The run of gtfs-ingest.js with a stations.json beside it.  The stops lie  *)
(* on one meridian: M and T 222 m apart, L and P far from them and from each *)
(* other; X is not in stops.txt.  In LocatedStops every stop has its         *)
(* coordinates, in StopsFile none has.                                       *)

StopAt(id, name, lat) ==
  [stop_id |-> id, stop_name |-> name, stop_lat |-> <<lat>>, stop_lon |-> <<7686>>]

LocatedStops ==
  <<StopAt("M", "Torino Porta Nuova 1", 45062), StopAt("T", "Torino Porta Nuova 2", 45064),
    StopAt("L", "Torino Porta Susa", 45072), StopAt("P", "Torino Lingotto", 45027),
    StopAt("U", "Susa", 45137)>>

ManifestStation(name, city, country, ids) ==
  [name |-> name, city |-> city, country |-> country, stopIds |-> ids]

\* the stations a stations.json may list
StationPool ==
  << ManifestStation("Torino Porta Nuova", "Torino", "IT", <<"TI:M", "TI:T", "TI:X">>),
     ManifestStation("Torino Porta Susa", "Torino", "IT", <<"TI:L", "TI:P">>),
     ManifestStation("Susa", "Susa", "IT", <<"TI:U">>) >>

Manifests ==
  {NoManifest}
  \cup {[exists |-> TRUE, stations |-> Pick(StationPool, K)] : K \in SUBSET (DOMAIN StationPool)}

\* the trips u1 (M, T, L), u2 (T, P), u5 (M, X) and u6 (M, U, on a bus route)
TransferFeeds ==
  {[operators |-> Operators,
    dirs |-> ("./gtfs/trenitalia" :>
                [Directory(Pick(FeedTrips, K), <<>>, <<>>) EXCEPT !.stops = stopsFile]),
    manifest |-> m] :
     K \in {S \in SUBSET {1, 2, 5, 6} : S # {}}, stopsFile \in {StopsFile, LocatedStops},
     m \in Manifests}

TransferInit ==
  /\ feed \in TransferFeeds
  /\ ingested = <<>>
  /\ artifacts = NoArtifacts
  /\ routeTrips = <<>>
  /\ transferIndex = EmptyMap
  /\ calendarIndex = EmptyMap
  /\ stopsIndex = <<>>
  /\ globalStopToTrips = EmptyMap
  /\ dateCache = <<>>
  /\ pc = "ingest"
  /\ sj = NoSearch
  /\ core = NoCall
  /\ req = NoRequest
  /\ response = NoResponse

TransferSpec == TransferInit /\ [][IngestNext]_vars

----------------------------------------------------------------------------
(* Station index construction (build-stations-index.js): the script reads    *)
(* stops.json, transfer_index.json and stations.csv and writes stations.json.*)
(* stops.json is a sequence of [sid, name, lat, lon, operator] in key order, *)
(* transfer_index.json a function from stop ids to sequences of stop ids, a  *)
(* row of the CSV a record of its columns.  A station is written here with   *)
(* its name, country, stopIds, operators and uic8; operators is the set of   *)
(* the array the script keeps sorted.  What the patterns of the script find  *)
(* in a stop id, and the slugs made of a string, are read from tables.       *)

PGL_AREA == "SNCF:StopArea:OCE87686006"
PGL_TGV == "SNCF:StopPoint:OCETGV INOUI-87686006"
PNO_AREA == "SNCF:StopArea:OCE87271007"
MI_C == "TI:8301700"
ATOCHA_R == "RENFE:60000"
ATOCHA_O == "OUIGO_ES:60000"
ES_PNO == "ES:paris_nord_3"
ES_PNO_AREA == "ES:paris_nord_station_area"

IndexIds == <<PGL_AREA, PGL_TGV, PNO_AREA, MI_C, ATOCHA_R, ATOCHA_O, ES_PNO, ES_PNO_AREA>>

\* prefix: the match of /^([A-Z]+):/.  uic: the digits after '-' or 'OCE' at
\* the end (7 to 8 of them at lines 146-147, 7 to 9 at line 305).  ti: the
\* digits of /^TI:(\d+)$/.  es: the base slug of an id that starts with 'ES:'
\* (lines 174-177, line 206).  tail: the match of /(\d{7,9})$/.
IdFact(prefix, uic, ti, es, tail) ==
  [prefix |-> prefix, uic |-> uic, ti |-> ti, es |-> es, tail |-> tail]

IdFacts ==
  [sid \in Range(IndexIds) |->
     CASE sid = PGL_AREA -> IdFact("SNCF", "87686006", "", "", "87686006")
       [] sid = PGL_TGV -> IdFact("SNCF", "87686006", "", "", "87686006")
       [] sid = PNO_AREA -> IdFact("SNCF", "87271007", "", "", "87271007")
       [] sid = MI_C -> IdFact("TI", "", "8301700", "", "8301700")
       [] sid = ATOCHA_R -> IdFact("RENFE", "", "", "", "")
       [] sid = ATOCHA_O -> IdFact("", "", "", "", "")
       [] sid = ES_PNO -> IdFact("ES", "", "", "paris_nord", "")
       [] sid = ES_PNO_AREA -> IdFact("ES", "", "", "paris_nord", "")]

\* lines 21-24
extractOperatorOf(sid) == IF IdFacts[sid].prefix # "" THEN IdFacts[sid].prefix ELSE "SNCF"

\* sid.startsWith('ES:'), sid.startsWith('SNCF:StopArea:')
StartsES(sid) == IdFacts[sid].es # ""

IsStopArea(sid) == sid \in {PGL_AREA, PNO_AREA}

\* stop.operator || extractOperator(sid)
OperatorOfStop(stop) == IF stop.operator # "" THEN stop.operator ELSE extractOperatorOf(stop.sid)

\* lines 142-161: the key of a stop in uic8ToStops, "" when it has none
UicKey(stop) ==
  IF OperatorOfStop(stop) = "SNCF" THEN IdFacts[stop.sid].uic
  ELSE IF OperatorOfStop(stop) = "TI" THEN IdFacts[stop.sid].ti
  ELSE ""

Sids(stops) == [i \in DOMAIN stops |-> stops[i].sid]

\* lines 140-161
uic8ToStops(stops) ==
  [uic \in {UicKey(stops[i]) : i \in DOMAIN stops} \ {""} |->
     Sids(SelectSeq(stops, LAMBDA stop : UicKey(stop) = uic))]

\* lines 170-180
slugToEsStops(stops) ==
  [base \in {IdFacts[stops[i].sid].es : i \in DOMAIN stops} \ {""} |->
     Sids(SelectSeq(stops, LAMBDA stop : IdFacts[stop.sid].es = base))]

\* lines 188-190
ES_TRANSFER_BLACKLIST == {<<"87113001", "paris_nord">>}

\* lines 196-211: the bases of the ES neighbours of a StopArea, by the UIC at the
\* end of its id
validEsTransfers(xfer) ==
  LET bases(key) == {IdFacts[xfer[key][n]].es : n \in DOMAIN xfer[key]} \ {""}
      kept(key) == {b \in bases(key) : <<IdFacts[key].tail, b>> \notin ES_TRANSFER_BLACKLIST}
      keys == {key \in DOMAIN xfer : IsStopArea(key) /\ IdFacts[key].tail # "" /\ kept(key) # {}}
  IN [uic \in {IdFacts[key].tail : key \in keys} |->
        UNION {kept(key) : key \in {k \in keys : IdFacts[k].tail = uic}}]

At(index, key) == IF key \in DOMAIN index THEN index[key] ELSE <<>>

\* Set.add of every id of ids that passes the test
AddAll(all, ids, Test(_)) ==
  LET RECURSIVE Go(_, _)
      Go(acc, n) == IF n > Len(ids) THEN acc
                    ELSE Go(IF Test(ids[n]) THEN AddKey(acc, ids[n]) ELSE acc, n + 1)
  IN Go(all, 1)

\* lines 91-99, and csvSlug.replace(/-/g, '_'), for the slugs of the model
CSV_SLUG_TO_ES_SLUG(csvSlug) ==
  CASE csvSlug = "paris-gare-du-nord" -> "paris_nord"
    [] OTHER -> ""

Underscored(csvSlug) ==
  CASE csvSlug = "paris-gare-du-nord" -> "paris_gare_du_nord"
    [] csvSlug = "paris-gare-de-lyon" -> "paris_gare_de_lyon"
    [] csvSlug = "milano-centrale" -> "milano_centrale"
    [] csvSlug = "paris-gare-de-lyon-hall-3" -> "paris_gare_de_lyon_hall_3"
    [] OTHER -> csvSlug

\* lines 278-282: the slugs the loop of step (4) goes through
EsSlugs(csvSlug) ==
  IF CSV_SLUG_TO_ES_SLUG(csvSlug) # ""
  THEN (IF CSV_SLUG_TO_ES_SLUG(csvSlug) = Underscored(csvSlug) THEN <<>>
        ELSE <<CSV_SLUG_TO_ES_SLUG(csvSlug)>>)
  ELSE (IF Underscored(csvSlug) # "" THEN <<Underscored(csvSlug)>> ELSE <<>>)

\* a row as the script reads it: the stop ids and operators collected so far
\* lines 239-245
Step1(row, uicIndex, r) ==
  IF row.uic8_sncf = "" THEN r
  ELSE [r EXCEPT !.all = AddAll(@, At(uicIndex, row.uic8_sncf), LAMBDA sid : TRUE),
                 !.ops = @ \cup {extractOperatorOf(sid) : sid \in Range(At(uicIndex, row.uic8_sncf))}]

\* lines 248-263
Step2(row, uicIndex, r) ==
  IF row.uic = "" \/ row.uic = row.uic8_sncf THEN r
  ELSE [r EXCEPT
          !.all = AddAll(AddAll(@, At(uicIndex, row.uic), LAMBDA sid : sid \notin r.assigned),
                         At(uicIndex, row.uic),
                         LAMBDA sid : row.trenitalia_is_enabled = "t"
                                        /\ extractOperatorOf(sid) = "TI"),
          !.ops = @ \cup {extractOperatorOf(sid) : sid \in Range(At(uicIndex, row.uic)) \ r.assigned}
                    \cup (IF row.trenitalia_is_enabled = "t"
                             /\ \E sid \in Range(At(uicIndex, row.uic)) :
                                   extractOperatorOf(sid) = "TI"
                          THEN {"TI"} ELSE {})]

\* lines 266-274
Step3(row, uicIndex, r) ==
  IF row.trenitalia_id = "" \/ row.trenitalia_is_enabled # "t" THEN r
  ELSE [r EXCEPT
          !.all = AddAll(@, At(uicIndex, row.trenitalia_id), LAMBDA sid : sid \notin r.assigned),
          !.ops = @ \cup (IF Range(At(uicIndex, row.trenitalia_id)) \ r.assigned # {}
                          THEN {"TI"} ELSE {})]

\* lines 281-294
Step4(row, esIndex, r) ==
  LET slugs == EsSlugs(row.slug)
      found == Flatten([n \in DOMAIN slugs |-> At(esIndex, slugs[n])])
  IN [r EXCEPT
        !.all = AddAll(@, found, LAMBDA sid : sid \notin r.assigned),
        !.ops = @ \cup (IF Range(found) \ r.assigned # {} THEN {"ES"} ELSE {}),
        !.esSlugs = @ \cup {slugs[n] : n \in {k \in DOMAIN slugs : At(esIndex, slugs[k]) # <<>>}}
                      \cup ({CSV_SLUG_TO_ES_SLUG(row.slug)} \ {""})]

\* lines 301-319
Step4b(row, esIndex, valid, r) ==
  LET uicsToCheck == ({row.uic8_sncf} \cup {IdFacts[r.all[n]].uic : n \in DOMAIN r.all}) \ {""}
      bases == UNION {valid[uic] : uic \in uicsToCheck \cap DOMAIN valid}
      found == Flatten([n \in DOMAIN IndexIds |->
                 IF IdFacts[IndexIds[n]].es \in bases
                    /\ Includes(At(esIndex, IdFacts[IndexIds[n]].es), IndexIds[n])
                    /\ IndexIds[n] \notin r.assigned
                 THEN <<IndexIds[n]>> ELSE <<>>])
  IN [r EXCEPT !.all = AddAll(@, found, LAMBDA sid : TRUE),
               !.ops = @ \cup (IF found # <<>> THEN {"ES"} ELSE {}),
               !.esSlugs = @ \cup {IdFacts[found[n]].es : n \in DOMAIN found}]

\* lines 324-331: the neighbours of the ids collected before the loop
Step5(xfer, r) ==
  LET sisters == Flatten([n \in DOMAIN r.all |-> At(xfer, r.all[n])])
      kept == SelectSeq(sisters, LAMBDA sid : sid \notin r.assigned /\ ~StartsES(sid))
  IN [r EXCEPT !.all = AddAll(@, kept, LAMBDA sid : TRUE),
               !.ops = @ \cup {extractOperatorOf(kept[n]) : n \in DOMAIN kept}]

\* lines 335-347
CsvStation(row, r) ==
  [name |-> row.name, country |-> IF row.country # "" THEN row.country ELSE "FR",
   stopIds |-> r.all, operators |-> r.ops, uic8 |-> row.uic8_sncf]

\* lines 223-350, one row: acc holds stations, assignedStops and assignedEsSlugs
CsvRow(row, acc, r) ==
  IF r.all = <<>> THEN [acc EXCEPT !.assignedEsSlugs = r.esSlugs]
  ELSE [stations |-> Append(acc.stations, CsvStation(row, r)),
        assignedStops |-> acc.assignedStops \cup Range(r.all),
        assignedEsSlugs |-> r.esSlugs]

Collected(row, acc, uicIndex, esIndex, valid, xfer) ==
  Step5(xfer,
    Step4b(row, esIndex, valid,
      Step4(row, esIndex,
        Step3(row, uicIndex,
          Step2(row, uicIndex,
            Step1(row, uicIndex,
                  [all |-> <<>>, ops |-> {}, assigned |-> acc.assignedStops,
                   esSlugs |-> acc.assignedEsSlugs]))))))

\* lines 218-350
RECURSIVE CsvPass(_, _, _, _, _, _, _)
CsvPass(csvRows, n, acc, uicIndex, esIndex, valid, xfer) ==
  IF n > Len(csvRows) THEN acc
  ELSE CsvPass(csvRows, n + 1,
               IF csvRows[n].is_suggestable # "t" \/ csvRows[n].name = "" THEN acc
               ELSE CsvRow(csvRows[n], acc,
                           Collected(csvRows[n], acc, uicIndex, esIndex, valid, xfer)),
               uicIndex, esIndex, valid, xfer)

\* lines 369-373 and 444-448, for the names of the model
normalizeStationName(n) ==
  CASE n = "Madrid Atocha" -> "madrid atocha"
    [] n = "Madrid-Atocha" -> "madrid atocha"
    [] n = "Milano Centrale" -> "milano centrale"
    [] n = "Paris Gare de Lyon" -> "paris gare de lyon"
    [] n = "Paris Gare de Lyon Hall 3" -> "paris gare de lyon hall 3"
    [] n = "Paris Gare du Nord" -> "paris gare du nord"
    [] n = "Paris Nord" -> "paris nord"
    [] OTHER -> n

\* stop.name || sid
NameOfStop(stop) == IF stop.name # "" THEN stop.name ELSE stop.sid

\* lines 104-121, and the title made of a base slug at line 392
ES_SLUG_COUNTRY(esBase) == CASE esBase = "paris_nord" -> "FR" [] OTHER -> "EU"

TitleOf(esBase) == CASE esBase = "paris_nord" -> "Paris Nord" [] OTHER -> esBase

StopOf(stops, sid) == CHOOSE stop \in Range(stops) : stop.sid = sid

\* ids.find(s => s.endsWith('_station_area')) || ids[0]
AreaSid(esStopIds) ==
  IF \E n \in DOMAIN esStopIds : esStopIds[n] = ES_PNO_AREA THEN ES_PNO_AREA ELSE esStopIds[1]

\* the keys of slugToEsStops in the order of Object.entries
RECURSIVE EsBases(_, _, _)
EsBases(stops, n, bases) ==
  IF n > Len(stops) THEN bases
  ELSE EsBases(stops, n + 1,
               IF StartsES(stops[n].sid) THEN AddKey(bases, IdFacts[stops[n].sid].es) ELSE bases)

\* lines 360-367 and 411-416, on the meridian the stops of the model lie on
CloseTo(lat, lon, orphStop) ==
  /\ lat # 0 /\ lon # 0
  /\ orphStop.lat # 0 /\ orphStop.lon # 0
  /\ haversine(lat, lon, orphStop.lat, orphStop.lon) < 300

\* lines 385-441, one base slug; orphans is sncfOrphansByName as the sequence of
\* its stops
EsOnlyStation(stops, esBase, esStopIds, orphans, acc) ==
  LET areaStop == StopOf(stops, AreaSid(esStopIds))
      name == IF areaStop.name # "" THEN areaStop.name ELSE TitleOf(esBase)
      sameName == SelectSeq(orphans, LAMBDA o :
                    o.sid \notin acc.assignedStops
                      /\ normalizeStationName(NameOfStop(o)) = normalizeStationName(name))
      close == SelectSeq(orphans, LAMBDA o :
                    o.sid \notin acc.assignedStops
                      /\ CloseTo(areaStop.lat, areaStop.lon, o))
      merged == Sids(sameName) \o Sids(close)
      all == AddAll(esStopIds, merged, LAMBDA sid : TRUE)
  IN IF esBase \in acc.assignedEsSlugs
        \/ \A n \in DOMAIN esStopIds : esStopIds[n] \in acc.assignedStops
     THEN acc
     ELSE [acc EXCEPT
             !.stations = Append(@, [name |-> name, country |-> ES_SLUG_COUNTRY(esBase),
                                     stopIds |-> all,
                                     operators |-> {"ES"} \cup {extractOperatorOf(merged[n]) :
                                                                  n \in DOMAIN merged},
                                     uic8 |-> ""]),
             !.assignedStops = @ \cup Range(all)]

\* lines 375-441
RECURSIVE EsOnlyPass(_, _, _, _, _, _)
EsOnlyPass(stops, bases, n, esIndex, orphans, acc) ==
  IF n > Len(bases) THEN acc
  ELSE EsOnlyPass(stops, bases, n + 1, esIndex, orphans,
                  EsOnlyStation(stops, bases[n], esIndex[bases[n]], orphans, acc))

\* lines 377-383
sncfOrphansByName(stops, assignedStops) ==
  SelectSeq(stops, LAMBDA stop : stop.sid \notin assignedStops /\ ~StartsES(stop.sid))

\* lines 452-464, for the ids of the model
countryFromStopId(sid) ==
  IF sid \in {ATOCHA_R, ATOCHA_O} THEN "ES"
  ELSE IF IdFacts[sid].tail = "" THEN "FR"
  ELSE IF sid = MI_C THEN "IT"
  ELSE "FR"

\* lines 467-470 and 525-530: the index of the last station that holds sid, 0
\* when none does
stopIdToStation(stations, sid) ==
  LET holders == {i \in DOMAIN stations : Includes(stations[i].stopIds, sid)}
  IN IF holders = {} THEN 0 ELSE CHOOSE i \in holders : \A j \in holders : j <= i

\* line 480: the first StopArea among the neighbours of sid, "" when none
ParentArea(xfer, sid) ==
  LET areas == SelectSeq(At(xfer, sid), IsStopArea)
  IN IF areas = <<>> THEN "" ELSE areas[1]

\* lines 490-501: the stop joins the group of its name or opens it
Grouped(groups, stop) ==
  LET key == normalizeStationName(NameOfStop(stop))
      at == {g \in DOMAIN groups : groups[g].key = key}
      found == CHOOSE g \in at : TRUE
  IN IF at = {}
     THEN Append(groups, [key |-> key, name |-> NameOfStop(stop),
                          country |-> IF OperatorOfStop(stop) = "TI" THEN "IT"
                                      ELSE countryFromStopId(stop.sid),
                          stopIds |-> <<stop.sid>>,
                          operators |-> {OperatorOfStop(stop)}])
     ELSE [groups EXCEPT ![found].stopIds = Append(@, stop.sid),
                         ![found].operators = @ \cup {OperatorOfStop(stop)}]

\* lines 472-502: o holds stations, assignedStops and orphanGroups; indexed is
\* the station list as it was when stopIdToStation was built
RECURSIVE OrphanPass(_, _, _, _, _)
OrphanPass(stops, n, xfer, indexed, o) ==
  IF n > Len(stops) THEN o
  ELSE LET stop == stops[n]
           parentArea == ParentArea(xfer, stop.sid)
           parent == IF parentArea = "" THEN 0 ELSE stopIdToStation(indexed, parentArea)
       IN OrphanPass(stops, n + 1, xfer, indexed,
            IF stop.sid \in o.assignedStops \/ StartsES(stop.sid) THEN o
            ELSE IF parent # 0
            THEN [o EXCEPT !.stations[parent].stopIds = AddKey(@, stop.sid),
                           !.assignedStops = @ \cup {stop.sid}]
            ELSE [o EXCEPT !.groups = Grouped(@, stop)])

\* lines 503-505
OrphanStations(groups) ==
  [g \in DOMAIN groups |->
     [name |-> groups[g].name, country |-> groups[g].country, stopIds |-> groups[g].stopIds,
      operators |-> groups[g].operators, uic8 |-> ""]]

\* lines 539-547: the index of the station of a UIC, 0 when there is none
SncfStation(stations, uic) ==
  LET byField == {i \in DOMAIN stations : stations[i].uic8 = uic}
      byStop == {i \in DOMAIN stations :
                   \E n \in DOMAIN stations[i].stopIds : IdFacts[stations[i].stopIds[n]].tail = uic}
      first(S) == CHOOSE i \in S : \A j \in S : i <= j
  IN IF byField # {} THEN first(byField) ELSE IF byStop # {} THEN first(byStop) ELSE 0

\* lines 550-582, one base slug: f holds stations and toRemoveIdxs
Fuse(f, sncf, esStopIds, esStationIdx) ==
  IF esStopIds = <<>> THEN f
  ELSE IF esStationIdx # 0 /\ esStationIdx # sncf
  THEN [stations |-> [f.stations EXCEPT
                        ![sncf].stopIds = AddAll(@, f.stations[esStationIdx].stopIds,
                                                 LAMBDA sid : TRUE),
                        ![sncf].operators = @ \cup {"ES"}],
        toRemoveIdxs |-> f.toRemoveIdxs \cup {esStationIdx}]
  ELSE IF esStationIdx = 0
  THEN [f EXCEPT !.stations[sncf].stopIds = AddAll(@, esStopIds, LAMBDA sid : TRUE),
                 !.stations[sncf].operators = @ \cup {"ES"}]
  ELSE f

\* lines 534-583; idx is stopIdToStationIdx, built before the loop
RECURSIVE FusePass(_, _, _, _, _, _, _)
FusePass(uics, n, valid, esIndex, bases, idx, f) ==
  IF n > Len(uics) THEN f
  ELSE LET sncf == SncfStation(f.stations, uics[n])
           mine == SelectSeq(bases, LAMBDA b : b \in valid[uics[n]])
           RECURSIVE Each(_, _)
           Each(g, k) ==
             IF k > Len(mine) THEN g
             ELSE Each(Fuse(g, sncf, At(esIndex, mine[k]),
                            IF At(esIndex, mine[k]) = <<>> THEN 0
                            ELSE idx[At(esIndex, mine[k])[1]]), k + 1)
       IN FusePass(uics, n + 1, valid, esIndex, bases, idx,
                   IF sncf = 0 THEN f ELSE Each(f, 1))

\* lines 586-588
Filtered(f) ==
  Flatten([i \in DOMAIN f.stations |->
             IF i \in f.toRemoveIdxs THEN <<>> ELSE <<f.stations[i]>>])

\* lines 596-601
score(s) ==
  (IF "SNCF" \in s.operators THEN 8 ELSE 0)
    + (IF "ES" \in s.operators THEN 4 ELSE 0)
    + (IF "TI" \in s.operators THEN 2 ELSE 0)
    + (IF "RENFE" \in s.operators THEN 6 ELSE 0)
    + (IF "OUIGO_ES" \in s.operators THEN 5 ELSE 0)

\* a.name.localeCompare(b.name, 'fr'), for the names of the model: the place
\* of a name in the French collation
NameRank(n) ==
  CASE n = "Madrid Atocha" -> 1
    [] n = "Madrid-Atocha" -> 2
    [] n = "Milano Centrale" -> 3
    [] n = "Paris Gare de Lyon" -> 4
    [] n = "Paris Gare de Lyon Hall 3" -> 5
    [] n = "Paris Gare du Nord" -> 6
    [] n = "Paris Nord" -> 7
    [] OTHER -> 8

\* lines 595-604: the comparator is negative when a goes before b
CompareStations(a, b) ==
  IF score(b) # score(a) THEN score(b) - score(a)
  ELSE NameRank(a.name) - NameRank(b.name)

\* Array.prototype.sort is stable: a station goes after the stations it does
\* not go before
RECURSIVE PlaceStation(_, _)
PlaceStation(sorted, s) ==
  IF sorted = <<>> THEN <<s>>
  ELSE IF CompareStations(s, sorted[Len(sorted)]) >= 0 THEN Append(sorted, s)
  ELSE Append(PlaceStation(SubSeq(sorted, 1, Len(sorted) - 1), s), sorted[Len(sorted)])

RECURSIVE SortStations(_, _, _)
SortStations(stations, n, sorted) ==
  IF n > Len(stations) THEN sorted
  ELSE SortStations(stations, n + 1, PlaceStation(sorted, stations[n]))

\* the UICs of validEsTransfers in the order of Object.entries
ValidUics(xferKeys, valid) ==
  LET RECURSIVE Go(_, _)
      Go(n, uics) ==
        IF n > Len(xferKeys) THEN uics
        ELSE Go(n + 1, IF IdFacts[xferKeys[n]].tail \in DOMAIN valid
                          /\ IsStopArea(xferKeys[n])
                       THEN AddKey(uics, IdFacts[xferKeys[n]].tail) ELSE uics)
  IN Go(1, <<>>)

\* the passes after the CSV, each on the result of the one before
AfterEsOnly(stops, esIndex, csv) ==
  EsOnlyPass(stops, EsBases(stops, 1, <<>>), 1, esIndex,
             sncfOrphansByName(stops, csv.assignedStops), csv)

AfterOrphans(stops, xfer, es) ==
  LET o == OrphanPass(stops, 1, xfer, es.stations,
                      [stations |-> es.stations, assignedStops |-> es.assignedStops,
                       groups |-> <<>>])
  IN o.stations \o OrphanStations(o.groups)

AfterFusion(stops, xfer, xferKeys, esIndex, valid, stations) ==
  Filtered(FusePass(ValidUics(xferKeys, valid), 1, valid, esIndex, EsBases(stops, 1, <<>>),
                    [sid \in Range(IndexIds) |-> stopIdToStation(stations, sid)],
                    [stations |-> stations, toRemoveIdxs |-> {}]))

\* lines 131-606: stations.json, of stops.json, transfer_index.json (xferKeys is
\* the order of its keys) and the rows of stations.csv
BuildStationsIndex(stops, xfer, xferKeys, csvRows) ==
  SortStations(
    AfterFusion(stops, xfer, xferKeys, slugToEsStops(stops), validEsTransfers(xfer),
      AfterOrphans(stops, xfer,
        AfterEsOnly(stops, slugToEsStops(stops),
          CsvPass(csvRows, 1,
                  [stations |-> <<>>, assignedStops |-> {}, assignedEsSlugs |-> {}],
                  uic8ToStops(stops), slugToEsStops(stops), validEsTransfers(xfer), xfer)))),
    1, <<>>)

----------------------------------------------------------------------------
(* The run of build-stations-index.js: feed holds the files the script      *)
(* reads, artifacts the stations.json it writes.  The stops are any stops of *)
(* a pool of eight, on one meridian, in the order of the pool; the transfer  *)
(* index is empty or links the stops of one place; the CSV is any rows of a  *)
(* pool of five, in the order of the pool.                                   *)

IndexStop(sid, name, lat, operator) ==
  [sid |-> sid, name |-> name, lat |-> lat, lon |-> 2355, operator |-> operator]

IndexStops ==
  <<IndexStop(PGL_AREA, "Paris Gare de Lyon", 48844, "SNCF"),
    IndexStop(PGL_TGV, "Paris Gare de Lyon", 48844, "SNCF"),
    IndexStop(PNO_AREA, "Paris Gare du Nord", 48880, "SNCF"),
    IndexStop(MI_C, "Milano Centrale", 45486, "TI"),
    IndexStop(ATOCHA_R, "Madrid Atocha", 40407, "RENFE"),
    IndexStop(ATOCHA_O, "Madrid-Atocha", 40407, "OUIGO_ES"),
    IndexStop(ES_PNO, "Paris Nord", 48881, "ES"),
    IndexStop(ES_PNO_AREA, "Paris Nord", 48881, "ES")>>

CsvLine(name, uic8_sncf, uic, trenitalia_id, country, enabled, slug, suggestable) ==
  [is_suggestable |-> suggestable, name |-> name, uic8_sncf |-> uic8_sncf, uic |-> uic,
   trenitalia_id |-> trenitalia_id, country |-> country,
   trenitalia_is_enabled |-> enabled, slug |-> slug]

CsvLines ==
  <<CsvLine("Paris Gare de Lyon", "87686006", "8768600", "", "FR", "f",
            "paris-gare-de-lyon", "t"),
    CsvLine("Paris Gare de Lyon Hall 3", "87686006", "", "", "FR", "f",
            "paris-gare-de-lyon-hall-3", "t"),
    CsvLine("Milano Centrale", "", "8301700", "8301700", "IT", "t", "milano-centrale", "t"),
    CsvLine("Paris Gare du Nord", "87271007", "8727100", "", "", "f",
            "paris-gare-du-nord", "t"),
    CsvLine("Paris Gare de Lyon", "87686006", "", "", "FR", "f", "paris-gare-de-lyon", "f")>>

\* the stops within 300 m of sid among ids, as buildTransferIndex links them
PlaceLinks(ids) ==
  [n \in DOMAIN ids |->
     SelectSeq(ids, LAMBDA other :
       other # ids[n]
         /\ \E a, b \in DOMAIN IndexStops :
              /\ IndexStops[a].sid = ids[n] /\ IndexStops[b].sid = other
              /\ haversine(IndexStops[a].lat, 2355, IndexStops[b].lat, 2355) < 300)]

IndexOf(keys, lists) == [sid \in Range(keys) |-> lists[CHOOSE n \in DOMAIN keys : keys[n] = sid]]

IndexFiles ==
  {[stops |-> Pick(IndexStops, S),
    xferKeys |-> IF linked THEN Sids(Pick(IndexStops, S)) ELSE <<>>,
    xfer |-> IF linked THEN IndexOf(Sids(Pick(IndexStops, S)),
                                    PlaceLinks(Sids(Pick(IndexStops, S))))
             ELSE EmptyMap,
    csv |-> Pick(CsvLines, R)] :
     S \in SUBSET (DOMAIN IndexStops) \ {{}}, linked \in BOOLEAN,
     R \in SUBSET (DOMAIN CsvLines)}

StationsInit ==
  /\ feed \in IndexFiles
  /\ ingested = <<>>
  /\ artifacts = NoArtifacts
  /\ routeTrips = <<>>
  /\ transferIndex = EmptyMap
  /\ calendarIndex = EmptyMap
  /\ stopsIndex = <<>>
  /\ globalStopToTrips = EmptyMap
  /\ dateCache = <<>>
  /\ pc = "index"
  /\ sj = NoSearch
  /\ core = NoCall
  /\ req = NoRequest
  /\ response = NoResponse

\* node build-stations-index.js
BuildStations ==
  /\ pc = "index"
  /\ artifacts' = [stations |-> BuildStationsIndex(feed.stops, feed.xfer, feed.xferKeys,
                                                   feed.csv)]
  /\ pc' = "indexed"
  /\ UNCHANGED <<data, feed, ingested, dateCache, sj, core, req, response>>

StationsSpec == StationsInit /\ [][BuildStations]_vars

----------------------------------------------------------------------------
(* The date cache under dated requests: a calendar of eight dates, and the  *)
(* requests /api/debug/trips?stop=&date= for these dates, for a date the    *)
(* calendar does not hold and without a date.                               *)

CalendarDates ==
  <<"2025-07-01", "2025-07-02", "2025-07-03", "2025-07-04",
    "2025-07-05", "2025-07-06", "2025-07-07", "2025-07-08">>

AbsentDate == "2025-12-25"

\* calendar_index.json: the service sv2 runs every second day
WeekCalendar ==
  [d \in Range(CalendarDates) |->
     IF \E n \in DOMAIN CalendarDates : CalendarDates[n] = d /\ n % 2 = 0
     THEN {"SNCF:sv1", "SNCF:sv2"} ELSE {"SNCF:sv1"}]

DatedRequests ==
  {[route |-> "", stop |-> A, date |-> d] :
     d \in Range(CalendarDates) \cup {AbsentDate, NoDate}}

CacheInit ==
  /\ routeTrips = RouteTripsOf({1, 3})
  /\ transferIndex = TransferIndex0
  /\ calendarIndex = WeekCalendar
  /\ stopsIndex = StopsIndex0
  /\ globalStopToTrips = buildStopToTrips(routeTrips)
  /\ dateCache = <<>>
  /\ pc = "idle"
  /\ sj = NoSearch
  /\ core = NoCall
  /\ req = NoRequest
  /\ response = NoResponse
  /\ feed = NoFeed
  /\ ingested = <<>>
  /\ artifacts = NoArtifacts

\* Bound of the model: a date that is not cached is asked for when it is at
\* most MaxSkip days after the newest date of the cache, the first day of the
\* calendar following the last; any date is asked for while the cache is empty
MaxSkip == 2

DayNumber(d) == CHOOSE n \in DOMAIN CalendarDates : CalendarDates[n] = d

Asked(d) ==
  IF d \notin Range(CalendarDates) \/ dateCache = <<>> THEN TRUE
  ELSE IF CacheHas(dateCache, d) THEN TRUE
  ELSE \E k \in 1..MaxSkip :
         DayNumber(d) = ((DayNumber(dateCache[Len(dateCache)].date) + k - 1) % Len(CalendarDates)) + 1

DatedRequest == \E q \in DatedRequests : Asked(q.date) /\ Debug(q)

CacheSpec == CacheInit /\ [][DatedRequest]_vars

----------------------------------------------------------------------------
(* What the properties speak of *)

\* the journeys returned by the last call of the core, by the last Search
\* response and by the last Explore response
CoreJourneys == Range(core.results)

SearchJourneys ==
  IF req.path = "/api/search" /\ response.status = 200 THEN Range(response.journeys) ELSE {}

ExploreJourneys ==
  IF req.path = "/api/explore" /\ response.status = 200 THEN Range(response.journeys) ELSE {}

\* a call of the core has been made for the request being served
CoreCalled == pc = "search" /\ core.start # Null

\* the start time a Search request asks for
StartOf(q) == Max(timeToSeconds(q.time) + q.offset, q.after_dep)

\* the operator prefix of a stop id: the text before its first ':'
ColonAt(cs) == CHOOSE i \in 1..Len(cs) : cs[i] = ":" /\ \A k \in 1..(i - 1) : cs[k] # ":"

PrefixOf(sid) == SubSeq(IdChars[sid], 1, ColonAt(IdChars[sid]) - 1)

\* the minimum transfer time of an edge by its category: inter-city, same
\* operator prefix, different operator prefixes
CategoryTime(fromId, entry) ==
  IF entry.interCity THEN 2700
  ELSE IF PrefixOf(fromId) = PrefixOf(entry.id) THEN 180 ELSE 600

\* the total minimum times of the walks of at most n transfer edges from x to y
RECURSIVE WalkCosts(_, _, _)
WalkCosts(x, y, n) ==
  (IF x = y THEN {0} ELSE {})
  \cup (IF n = 0 THEN {}
        ELSE UNION {{CategoryTime(x, e) + c : c \in WalkCosts(e.id, y, n - 1)} :
                      e \in Range(transferEntries(x))})

\* the times of a trip in stop order, arrival before departure, never decrease
TripTimes(trip) ==
  Filter(Flatten([i \in DOMAIN trip.stop_times |->
                    <<trip.stop_times[i].arr_time, trip.stop_times[i].dep_time>>]),
         LAMBDA x : x # Null)

MonotoneTimetable ==
  \A trip \in Range(AllTrips(routeTrips)) :
    \A i, k \in DOMAIN TripTimes(trip) : i <= k => TripTimes(trip)[i] <= TripTimes(trip)[k]

LegsFeasible(j, start) ==
  /\ j.legs[1].dep_time >= start
  /\ \A n \in DOMAIN j.legs : j.legs[n].dep_time <= j.legs[n].arr_time
  /\ \A n \in 1..(Len(j.legs) - 1) :
       LET l1 == j.legs[n]
           l2 == j.legs[n + 1]
       IN IF l2.from_id = l1.to_id THEN l2.dep_time >= l1.arr_time
          ELSE \E c \in WalkCosts(l1.to_id, l2.from_id, Cardinality(StopIds) - 1) :
                 l2.dep_time >= l1.arr_time + c

----------------------------------------------------------------------------
(* The properties *)

\* C1 - Journey feasibility: over a timetable whose trip times never decrease,
\* every journey returned by raptorCore or by Search has its first leg leave at
\* or after the requested start, every leg leave no later than it arrives, and
\* each next leg boarded no earlier than the arrival of the one before, plus the
\* minimum transfer times of the edges walked when it leaves from another stop.
JourneyFeasibility ==
  MonotoneTimetable =>
    /\ \A j \in CoreJourneys : LegsFeasible(j, core.start)
    /\ \A j \in SearchJourneys : LegsFeasible(j, StartOf(req.q))

\* C2 - Filter soundness: with a non-empty allow-set S of train types, every leg
\* of every journey a Search returns has a train type in S.
FilterSoundness ==
  \A j \in SearchJourneys :
    (req.q.train_types.on /\ req.q.train_types.types # {}) =>
      \A n \in DOMAIN j.legs : j.legs[n].train_type \in req.q.train_types.types

\* the services active on a date: none on a date the calendar index does not hold
ActiveOn(d) == IF d \in DOMAIN calendarIndex THEN calendarIndex[d] ELSE {}

RidesActive(j, d) ==
  \A n \in DOMAIN j.legs : TripById(j.legs[n].trip_id).service_id \in ActiveOn(d)

BoardsActive(d) ==
  /\ \A j \in SearchJourneys \cup ExploreJourneys \cup CoreJourneys : RidesActive(j, d)
  /\ \A x \in DOMAIN core.parent :
       ~core.parent[x].is_transfer => TripById(core.parent[x].trip_id).service_id \in ActiveOn(d)

\* C3 as stated - Date validity: for a request carrying a date, in the calendar
\* index or not, every leg of every returned journey rides a trip whose service
\* is active on that date, and no other trip is boarded.
DateValidityAnyDate ==
  (req.path # "" /\ req.q.date # NoDate) => BoardsActive(req.q.date)

\* C3 as amended - Date validity for the dates the calendar index holds: every
\* leg of every returned journey rides a trip whose service is active on the
\* date, and no other trip is boarded.
DateValidity ==
  (req.path # "" /\ req.q.date \in DOMAIN calendarIndex) => BoardsActive(req.q.date)

\* a dated Search has answered with journeys although the timetable holds a
\* trip of an inactive service leaving an origin after the start
DateValidityWitness ==
  /\ req.path = "/api/search" /\ req.q.date \in DOMAIN calendarIndex
  /\ response.status = 200 /\ response.journeys # <<>>
  /\ \E trip \in Range(AllTrips(routeTrips)) :
       /\ trip.service_id \notin calendarIndex[req.q.date]
       /\ trip.stop_times[1].stop_id \in {A, B, C}
       /\ trip.stop_times[1].dep_time >= StartOf(req.q)

Dominates(j2, j1) ==
  /\ j2.transfers <= j1.transfers /\ j2.duration <= j1.duration /\ j2.dep_time >= j1.dep_time
  /\ (j2.transfers < j1.transfers \/ j2.duration < j1.duration \/ j2.dep_time > j1.dep_time)

\* C4 - Pareto optimality: no journey in the list a Search returns is dominated
\* on (transfers, duration, departure time) by another journey of the list.
ParetoResult ==
  \A j1, j2 \in SearchJourneys : ~Dominates(j2, j1)

\* C5 - Monotonicity: of two calls of the core for the same timetable, date,
\* origins and destination, the one started earlier ends with an arrival at the
\* destination that is no later (an unreached destination counts as infinity).
Monotonicity ==
  \A m, n \in DOMAIN sj.calls :
    sj.calls[m].start <= sj.calls[n].start =>
      \A d \in DOMAIN sj.calls[n].arrivals :
        /\ d \in DOMAIN sj.calls[m].arrivals
        /\ sj.calls[m].arrivals[d] <= sj.calls[n].arrivals[d]

\* the trips the date-filtered index refers to
TripsOf(stt) == UNION {{TripById(stt[x][i].trip) : i \in DOMAIN stt[x]} : x \in DOMAIN stt}

\* <<stop, time>> labels: the origins at the start, and their transfer
\* neighbours after the minimum transfer time
StartLabels(originIds, start) ==
  {<<o, start>> : o \in Range(originIds)}
  \cup UNION {{<<e.id, start + CategoryTime(o, e)>> : e \in Range(transferEntries(o))} :
                o \in Range(originIds)}

\* the arrivals of one more trip boarded at a label, at or after its time
RideLabels(labels, trips, dateISO) ==
  UNION {UNION {{<<lt[2].stop_times[k].stop_id,
                   ReadTime(lt[2], Coalesce(lt[2].stop_times[k].arr_time,
                                            lt[2].stop_times[k].dep_time), dateISO)>> :
                   k \in {k \in DOMAIN lt[2].stop_times :
                            /\ k > i
                            /\ Coalesce(lt[2].stop_times[k].arr_time,
                                        lt[2].stop_times[k].dep_time) # Null}} :
                 i \in {i \in DOMAIN lt[2].stop_times :
                          /\ lt[2].stop_times[i].stop_id = lt[1][1]
                          /\ Coalesce(lt[2].stop_times[i].dep_time,
                                      lt[2].stop_times[i].arr_time) # Null
                          /\ ReadTime(lt[2], Coalesce(lt[2].stop_times[i].dep_time,
                                                      lt[2].stop_times[i].arr_time), dateISO)
                               >= lt[1][2]}} :
           lt \in labels \X trips}

\* the labels themselves and those one transfer edge further
WalkLabels(labels) ==
  labels \cup UNION {{<<e.id, l[2] + CategoryTime(l[1], e)>> : e \in Range(transferEntries(l[1]))} :
                       l \in labels}

\* the arrivals of the feasible journeys that board exactly n trips
RECURSIVE FeasibleArrivals(_, _, _, _, _)
FeasibleArrivals(n, originIds, start, trips, dateISO) ==
  IF n = 1 THEN RideLabels(StartLabels(originIds, start), trips, dateISO)
  ELSE RideLabels(WalkLabels(FeasibleArrivals(n - 1, originIds, start, trips, dateISO)),
                  trips, dateISO)

\* tau_best at the end of round n, or at the end of the call when it ended before
TauAtRound(n) == IF n <= Len(core.rounds) THEN core.rounds[n].tau_best ELSE core.tau_best

\* C6 - Round bound: when a feasible journey from an origin, or from a seeded
\* transfer neighbour, boards k+1 trips (0 <= k <= 4) and arrives at destination
\* d at time a, tau_best[d] <= a at the end of round k+1 of raptorCore.
RoundBound ==
  CoreCalled =>
    \A n \in 1..MAX_ROUNDS :
      \A l \in FeasibleArrivals(n, sj.originIds, core.start, TripsOf(sj.stt), sj.dateISO) :
        l[1] \in Range(sj.destIds) =>
          /\ l[1] \in DOMAIN TauAtRound(n)
          /\ TauAtRound(n)[l[1]] <= l[2]

\* the inter-city neighbours of the origins that are not origins themselves
InterCityNeighbours(originSet) ==
  UNION {{e.id : e \in {x \in Range(transferEntries(o)) : x.interCity}} : o \in originSet}
  \ originSet

\* C7 - Inter-city departure counts a transfer: a journey of raptorCore whose
\* first trip leaves an inter-city neighbour of an origin that is not in the
\* origin set counts one transfer for that walk; made of one trip, it has
\* transfers = 1.
InterCityCountsTransfer ==
  \A j \in CoreJourneys :
    j.legs[1].from_id \in InterCityNeighbours(core.originSet) => j.transfers = Len(j.legs)

\* C8 - Transfer-neighbour boarding threshold: in a Search from the stops the
\* request names, started at s, a trip leaving at d a transfer neighbour N of a
\* named stop o passes the boarding test of the first round iff
\* d >= s + transferTime(o -> N); so from A at 08:00 neither the 08:02 trip of
\* B nor the 08:44 trip of C is boarded.
NeighbourThreshold ==
  CoreCalled =>
    \A o \in Range(req.q.from) :
      \A e \in {x \in Range(transferEntries(o)) : x.id \notin Range(req.q.from)} :
        \A x \in Range(EntriesAt(sj.stt, e.id)) :
          LET trip == TripById(x.trip)
              stm == trip.stop_times[x.idx]
              dep == ReadTime(trip, Coalesce(stm.dep_time, stm.arr_time), sj.dateISO)
          IN dep # Null =>
               ((Has(core.seeds, e.id) /\ CanBoard(dep, core.seeds[e.id]))
                  <=> dep >= core.start + CategoryTime(o, e))

\* C9 - Minimum transfer time by category: every transfer the core walks takes
\* 2700 s over an edge tagged inter-city, else 180 s between stops of the same
\* operator prefix and 600 s between stops of different prefixes, OUIGO_ES
\* among them.
TransferTimeByCategory ==
  \A x \in DOMAIN core.parent :
    core.parent[x].is_transfer =>
      \E e \in Range(transferEntries(core.parent[x].from_stop)) :
        /\ e.id = x
        /\ core.parent[x].arr_time - core.parent[x].dep_time
             = CategoryTime(core.parent[x].from_stop, e)

\* the dates of the model whose month is in 4..9
SummerDates == {June15}

TiOffset(operator, dateISO) ==
  IF operator # OpTI THEN 0 ELSE IF dateISO \in SummerDates THEN 7200 ELSE 3600

\* the times of a leg are the stored times of its trip at the two stops, plus
\* the offset of the operator
LegReadsStored(l, dateISO) ==
  LET trip == TripById(l.trip_id)
      off == TiOffset(trip.operator, dateISO)
  IN \E i, k \in DOMAIN trip.stop_times :
       /\ i < k
       /\ trip.stop_times[i].stop_id = l.from_id
       /\ trip.stop_times[k].stop_id = l.to_id
       /\ l.dep_time = Coalesce(trip.stop_times[i].dep_time, trip.stop_times[i].arr_time) + off
       /\ l.arr_time = Coalesce(trip.stop_times[k].arr_time, trip.stop_times[k].dep_time) + off

\* C10 - TI timezone normalization: the times read from a TI trip are the
\* stored times + 7200 s when the month of the query date is in 4..9 and
\* + 3600 s otherwise, dateless queries included, for the boarding test and in
\* the leg; the times of the other operators are unchanged.  A TI departure
\* stored as 39600 s is boarded by a query at 12:00 and shown as 13:00 on
\* 2025-06-15 and as 12:00 on 2025-11-15.
TiNormalization ==
  /\ req.path # "" =>
       \A j \in CoreJourneys \cup SearchJourneys \cup ExploreJourneys :
         \A n \in DOMAIN j.legs : LegReadsStored(j.legs[n], req.q.date)
  /\ (CoreCalled /\ Len(sj.calls) = 1 /\ req.q.from = <<M>>
        /\ \E trip \in TripsOf(sj.stt) :
             trip.operator = OpTI /\ trip.stop_times[1] = ST(M, 39600, 39600)) =>
       \E j \in CoreJourneys :
         /\ j.legs[1].from_id = M /\ j.legs[1].operator = OpTI
         /\ j.legs[1].dep_str = (IF req.q.date \in SummerDates THEN <<13, 0>> ELSE <<12, 0>>)

\* a query at 12:00 on 2025-06-15 has boarded the TI trip stored at 39600 s
TiNormalizationWitness ==
  /\ CoreCalled /\ req.q.date = June15 /\ core.start = HM(12, 0)
  /\ \E j \in CoreJourneys :
       /\ j.legs[1].operator = OpTI
       /\ TripById(j.legs[1].trip_id).stop_times[1].dep_time = 39600
       /\ j.legs[1].dep_str = <<13, 0>>

----------------------------------------------------------------------------
(* The list searchJourneys returns *)

\* a is not after b in the order (transfers, duration, dep_time)
LexLeq(a, b) ==
  \/ a.transfers < b.transfers
  \/ /\ a.transfers = b.transfers
     /\ \/ a.duration < b.duration
        \/ a.duration = b.duration /\ a.dep_time <= b.dep_time

\* a candidate with the fields the sort and the dedupe read
Candidate(transfers, duration, dep, toId) ==
  [transfers |-> transfers, duration |-> duration, dep_time |-> dep,
   legs |-> <<[to_id |-> toId]>>]

OrderExample ==
  <<Candidate(1, 120, HM(7, 0), D), Candidate(0, 150, HM(7, 5), D),
    Candidate(1, 115, HM(8, 0), D)>>

\* C11 - Result order: the list returned by searchJourneys is sorted in
\* non-decreasing lexicographic order of (transfers, duration, dep_time), after
\* the city-arrival dedupe and the truncation too.  The candidates
\* {1, 120, 07:00}, {0, 150, 07:05}, {1, 115, 08:00} come back as 0/150, 1/115,
\* 1/120, and truncated to two as 0/150, 1/115.
ResultOrder ==
  /\ (req.path = "/api/search" /\ response.status = 200) =>
       \A i, k \in DOMAIN response.journeys :
         i < k => LexLeq(response.journeys[i], response.journeys[k])
  /\ FinalList(OrderExample, 8) = <<OrderExample[2], OrderExample[3], OrderExample[1]>>
  /\ FinalList(OrderExample, 2) = <<OrderExample[2], OrderExample[3]>>

\* a response whose first journey leaves after its second: the order returned is
\* not the order of discovery
ResultOrderWitness ==
  /\ req.path = "/api/search" /\ response.status = 200
  /\ Len(response.journeys) >= 2
  /\ response.journeys[1].dep_time > response.journeys[2].dep_time

\* the pair the dedupe of lines 618-627 keys a journey by
DepCity(j) == <<j.dep_time, cityKeyOfStop(j.legs[Len(j.legs)].to_id)>>

TripIds(j) == [n \in DOMAIN j.legs |-> j.legs[n].trip_id]

NoRepeatedTripIds(js) == \A i, k \in DOMAIN js : i # k => TripIds(js[i]) # TripIds(js[k])

\* C13 - Trip-sequence dedupe: across the repeated round-based searches made
\* for one Search request, no two journeys have the same sequence of leg trip
\* ids: not in the result of one round-based search, not among the candidates
\* kept from one search to the next, not in the list returned.
TripSequenceDedupe ==
  /\ NoRepeatedTripIds(core.results)
  /\ NoRepeatedTripIds(sj.results)
  /\ req.path = "/api/search" => NoRepeatedTripIds(response.journeys)

\* a round-based search has reached both platforms of the destination, the second
\* on foot from the first, and kept one journey for the one train that serves them
TripSequenceDedupeWitness ==
  /\ CoreCalled
  /\ Has(core.parent, F) /\ core.parent[F].is_transfer /\ core.parent[F].from_stop = D
  /\ Has(core.parent, D) /\ ~core.parent[D].is_transfer
  /\ Len(core.results) = 1 /\ Len(sj.results) = 1

\* C14 - Termination: for every timetable and input, with no reachable
\* destination, anomalous trip times or a filter that rejects every journey
\* included, searchJourneys terminates: every iteration of its loop records a
\* journey with new trip ids or advances the start time, and a search that has
\* begun is answered.
Termination ==
  /\ [][(pc = "search" /\ pc' = "search") =>
          \/ \E j \in Range(sj'.results) : \A c \in Range(sj.results) : TripIds(j) # TripIds(c)
          \/ sj'.t > sj.t]_vars
  /\ (pc = "search") ~> (pc = "idle")

\* a search whose filter rejected the one train of the timetable has been answered
\* with no journey
TerminationWitness ==
  /\ req.path = "/api/search" /\ pc = "idle" /\ response.status = 200
  /\ req.q.train_types.on /\ response.journeys = <<>>
  /\ \E trip \in Range(AllTrips(routeTrips)) :
       trip.trip_id = "SNCF:t4" /\ trip.train_type \notin req.q.train_types.types

----------------------------------------------------------------------------
(* The result of /api/explore *)

\* the stop a journey arrives at
ArrivalStop(j) == j.legs[Len(j.legs)].to_id

\* the journeys to stop sid that the rounds of the search of one slot find: the
\* labels of a search do not depend on its destinations, and with sid as the
\* destination every round that improves sid yields its journey
FoundInSlot(uniqueFrom, sid, slot, stt, dateISO) ==
  {j \in Range(raptorCore(uniqueFrom, Dest(<<sid>>), timeToSeconds(slot), stt, dateISO).results) :
     ArrivalStop(j) = sid}

\* C15 - Explore keeps the best journey per stop: the Explore result holds at
\* most one journey per reached stop that is not an origin, and that journey
\* has the smallest duration among all the journeys to that stop found in any
\* round of any of the 8 slot searches, journeys found in a later round of the
\* same slot search included.
ExploreKeepsBest ==
  (req.path = "/api/explore" /\ response.status = 200) =>
    /\ \A i, k \in DOMAIN response.journeys :
         i # k => ArrivalStop(response.journeys[i]) # ArrivalStop(response.journeys[k])
    /\ \A n \in DOMAIN Slots :
         \A sid \in StopIds \ Range(resolveStopIds(Dedup(req.q.from), "origin")) :
           \A j \in FoundInSlot(resolveStopIds(Dedup(req.q.from), "origin"), sid, Slots[n],
                                getFilteredData(req.q.date).stopToTrips, req.q.date) :
             \E r \in Range(response.journeys) :
               ArrivalStop(r) = sid /\ r.duration <= j.duration

----------------------------------------------------------------------------
(* The files gtfs-ingest.js writes *)

Written == pc = "written"

\* the trips of route_trips.json
WrittenTrips ==
  UNION {Range(artifacts.routeTrips[n].trips) : n \in DOMAIN artifacts.routeTrips}

\* the times of a trip in stored order: arr_time then dep_time of each stop, the
\* missing ones left out
StoredTimes(stops) ==
  Flatten([i \in DOMAIN stops |->
             (IF stops[i].arr_time = Null THEN <<>> ELSE <<stops[i].arr_time>>)
             \o (IF stops[i].dep_time = Null THEN <<>> ELSE <<stops[i].dep_time>>)])

NeverBackward(ts) == \A i \in 1..(Len(ts) - 1) : ts[i] <= ts[i + 1]

\* C16 - Repaired trips are time-ordered: for every trip written by ingestion,
\* for any input feed, stop_times is not empty and its arrival and departure
\* times never go backward along the trip, reading arr_time then dep_time at
\* each stop in stored order and skipping the missing values.
RepairedTripsTimeOrdered ==
  Written =>
    \A trip \in WrittenTrips :
      trip.stop_times # <<>> /\ NeverBackward(StoredTimes(trip.stop_times))

\* C17 - routesByStop and routeStops agree: in the files written, for every stop
\* s and route r, r is in routesByStop[s] if and only if s is in routeStops[r],
\* also when trips of the same route serve different sets of stops.
RoutesByStopAgree ==
  Written =>
    \A sid \in (DOMAIN artifacts.routesByStop)
                 \cup UNION {Range(artifacts.routeStops[r]) : r \in DOMAIN artifacts.routeStops} :
      \A rid \in (DOMAIN artifacts.routeStops)
                   \cup UNION {Range(artifacts.routesByStop[x]) : x \in DOMAIN artifacts.routesByStop} :
        (Has(artifacts.routesByStop, sid) /\ Includes(artifacts.routesByStop[sid], rid))
          <=> (Has(artifacts.routeStops, rid) /\ Includes(artifacts.routeStops[rid], sid))

\* C18 - Referential integrity of stops: after the ingestion of any feed, every
\* stop id of the stop_times of a trip or of routeStops is a key of the stops
\* table, also when stop_times names a stop that the stops file does not list.
StopsReferentialIntegrity ==
  Written =>
    /\ \A trip \in WrittenTrips : \A i \in DOMAIN trip.stop_times :
         Has(artifacts.stopsDict, trip.stop_times[i].stop_id)
    /\ \A rid \in DOMAIN artifacts.routeStops : \A i \in DOMAIN artifacts.routeStops[rid] :
         Has(artifacts.stopsDict, artifacts.routeStops[rid][i])

\* the calendar files of the operator op of the feed
CalendarOf(op) == feed.dirs[op.gtfs_dir].calendar

CalendarDatesOf(op) == feed.dirs[op.gtfs_dir].calendar_dates

\* service has a weekly row that covers the day n with the flag of its weekday set
WeeklyOn(op, service, n) ==
  \E i \in DOMAIN CalendarOf(op) :
    /\ CalendarOf(op)[i].service_id = service
    /\ DayOf(CalendarOf(op)[i].start_date) <= n /\ n <= DayOf(CalendarOf(op)[i].end_date)
    /\ CalendarOf(op)[i][DOW_KEYS[DayTable[n].dow + 1]] = "1"

\* the exceptions of the given type for service on the day n
ExceptionsFor(op, service, n, type) ==
  {i \in DOMAIN CalendarDatesOf(op) :
     /\ CalendarDatesOf(op)[i].service_id = service
     /\ CalendarDatesOf(op)[i].date = DayTable[n].gtfs
     /\ CalendarDatesOf(op)[i].exception_type = type}

\* the day n is inside a validity interval or named by an exception
DayCovered(op, n) ==
  \/ \E i \in DOMAIN CalendarOf(op) :
       DayOf(CalendarOf(op)[i].start_date) <= n /\ n <= DayOf(CalendarOf(op)[i].end_date)
  \/ \E i \in DOMAIN CalendarDatesOf(op) : CalendarDatesOf(op)[i].date = DayTable[n].gtfs

InCalendarIndex(iso, serviceId) ==
  Has(artifacts.calendarIndex, iso) /\ Includes(artifacts.calendarIndex[iso], serviceId)

FeedServices == {"sv1", "sv2"}

\* C19 - Calendar expansion: for every operator and date D, calendarIndex[D]
\* holds the operator-prefixed service s if and only if s has a weekly row
\* with start_date <= D <= end_date and the weekday flag of D set and no
\* remove-exception for (s, D), or an add-exception for (s, D) exists, there
\* being at most one exception per (s, D); every date inside a validity
\* interval or named by an exception has an entry.
CalendarExpansion ==
  Written =>
    \A o \in DOMAIN feed.operators : \A n \in DOMAIN DayTable :
      /\ DayCovered(feed.operators[o], n) => Has(artifacts.calendarIndex, DayTable[n].iso)
      /\ \A service \in FeedServices :
           Cardinality(ExceptionsFor(feed.operators[o], service, n, "1")
                       \cup ExceptionsFor(feed.operators[o], service, n, "2")) <= 1
           => (InCalendarIndex(DayTable[n].iso, P(feed.operators[o].id, service))
                 <=> \/ /\ WeeklyOn(feed.operators[o], service, n)
                        /\ ExceptionsFor(feed.operators[o], service, n, "2") = {}
                     \/ ExceptionsFor(feed.operators[o], service, n, "1") # {})

\* a calendar is written in which an exception removed a service from a day of
\* its weekly row, another added a service on a day outside its weekly row, and
\* a day of an interval whose weekday is not flagged has an entry without it
CalendarExpansionWitness ==
  /\ Written
  /\ \E n \in DOMAIN DayTable :
       /\ WeeklyOn(feed.operators[1], "sv1", n)
       /\ ExceptionsFor(feed.operators[1], "sv1", n, "2") # {}
       /\ ExceptionsFor(feed.operators[1], "sv1", n, "1") = {}
       /\ Has(artifacts.calendarIndex, DayTable[n].iso)
       /\ ~InCalendarIndex(DayTable[n].iso, "TI:sv1")
  /\ \E n \in DOMAIN DayTable :
       /\ ~WeeklyOn(feed.operators[1], "sv2", n)
       /\ InCalendarIndex(DayTable[n].iso, "TI:sv2")
  /\ \E n \in DOMAIN DayTable :
       /\ ~WeeklyOn(feed.operators[1], "sv1", n)
       /\ DayCovered(feed.operators[1], n)
       /\ Has(artifacts.calendarIndex, DayTable[n].iso)
       /\ ~InCalendarIndex(DayTable[n].iso, "TI:sv1")

----------------------------------------------------------------------------
(* The start times searchJourneys enumerates *)

\* the number of batches without a new journey since the last batch with one
EmptyRun(calls) ==
  Cardinality({n \in DOMAIN calls : \A m \in n..Len(calls) : calls[m].found = 0})

\* the largest dep_time of the journeys js
MaxDep(js) ==
  CHOOSE d \in {js[n].dep_time : n \in DOMAIN js} : \A n \in DOMAIN js : js[n].dep_time <= d

\* the journeys the iteration pushed
NewJourneys == SubSeq(sj'.results, Len(sj.results) + 1, Len(sj'.results))

\* the next start time after a batch
NextStart ==
  IF Len(sj'.results) > Len(sj.results) THEN sj'.t = MaxDep(NewJourneys) + 1
  ELSE sj'.t = sj.t + 1800

\* C20 - Start-time enumeration rule: after a batch with at least one new
\* journey the next start time is the largest dep_time of the new journeys
\* plus 1 s, after a batch with none it is 1800 s later, and no batch is run
\* after 4 consecutive empty advances or with a start time more than 14 h past
\* the requested one, whether or not a journey has been found.
StartTimeRule ==
  [][(pc = "search" /\ pc' = "search") =>
       /\ NextStart
       /\ EmptyRun(sj.calls) < 4
       /\ sj.t <= sj.startTime + 14 * 3600]_vars

\* C20 as the code has it: the same rule for the next start time; a batch is
\* run only while fewer than limit journeys are collected and the start time
\* is at most 14 h past the requested one, and not after 4 consecutive empty
\* advances once a journey has been found; with no journey found the empty
\* advances go on to the 14 h bound, and the loop ends only for one of these
\* three reasons.
StartTimeRuleFound ==
  /\ [][(pc = "search" /\ pc' = "search") =>
          /\ NextStart
          /\ EmptyRun(sj.calls) < 4 \/ sj.results = <<>>
          /\ sj.t <= sj.startTime + 14 * 3600
          /\ Len(sj.results) < sj.limit]_vars
  /\ [][(pc = "search" /\ pc' = "idle") =>
          \/ EmptyRun(sj.calls) = 4 /\ sj.results # <<>>
          \/ sj.t > sj.startTime + 14 * 3600
          \/ Len(sj.results) >= sj.limit]_vars

\* a search has found a journey, moved its start time past it, and ended on its
\* fourth empty advance in a row before the 14 h bound
StartTimeRuleFoundWitness ==
  /\ pc = "search"
  /\ sj.broke
  /\ sj.results # <<>>
  /\ EmptyRun(sj.calls) = 4
  /\ sj.t <= sj.startTime + 14 * 3600
  /\ \E n \in DOMAIN sj.calls : sj.calls[n].found > 0 /\ n < Len(sj.calls)

----------------------------------------------------------------------------
(* The rounds of raptorCore *)

\* the labels a round of the last call began with
LabelsBefore(r) == IF r = 1 THEN core.seeds ELSE core.rounds[r - 1].tau_best

\* C21 - Round cap: a call of raptorCore runs at most 5 rounds, and runs round
\* r + 1 only if round r marked a stop, that is improved the label of at least
\* one stop; a round that marks nothing is the last.
RoundCap ==
  CoreCalled =>
    /\ Len(core.rounds) <= 5
    /\ \A r \in 1..(Len(core.rounds) - 1) :
         /\ core.rounds[r].marked # <<>>
         /\ core.rounds[r].tau_best # LabelsBefore(r)

\* a call ran five rounds and its fifth round still marked a stop: the cap ended
\* the loop
RoundCapWitness ==
  /\ CoreCalled
  /\ Len(core.rounds) = 5
  /\ core.rounds[5].marked # <<>>
  /\ core.rounds[5].tau_best # LabelsBefore(5)

----------------------------------------------------------------------------
(* The canonical round-based search, scanning each route once per round from *)
(* its first marked stop: a trip is boarded at a stop whose label of the     *)
(* round before allows it, and the stops improved by a ride are relaxed over *)
(* the transfer edges, with the transfer times of the engine.                *)

DepAt(trip, i, dateISO) ==
  ReadTime(trip, Coalesce(trip.stop_times[i].dep_time, trip.stop_times[i].arr_time), dateISO)

ArrAt(trip, k, dateISO) ==
  ReadTime(trip, Coalesce(trip.stop_times[k].arr_time, trip.stop_times[k].dep_time), dateISO)

\* the trip can be boarded at its stop i with the labels prev of the round before
CanonBoards(trip, i, prev, marked, dateISO) ==
  /\ \E m \in 1..i : trip.stop_times[m].stop_id \in marked
  /\ Has(prev, trip.stop_times[i].stop_id)
  /\ DepAt(trip, i, dateISO) # Null
  /\ DepAt(trip, i, dateISO) >= prev[trip.stop_times[i].stop_id]

\* <<stop, time>>: the arrivals of the trips boarded in this round
CanonRides(prev, marked, trips, dateISO) ==
  UNION {{<<trip.stop_times[k].stop_id, ArrAt(trip, k, dateISO)>> :
            k \in {k \in DOMAIN trip.stop_times :
                     /\ ArrAt(trip, k, dateISO) # Null
                     /\ \E i \in 1..(k - 1) : CanonBoards(trip, i, prev, marked, dateISO)}} :
           trip \in trips}

\* the labels prev lowered by the candidates <<stop, time>>
MinLabels(prev, cands) ==
  [s \in (DOMAIN prev) \cup {c[1] : c \in cands} |->
     CHOOSE t \in {c[2] : c \in {x \in cands : x[1] = s}} \cup (IF Has(prev, s) THEN {prev[s]} ELSE {}) :
       /\ \A c \in cands : c[1] = s => t <= c[2]
       /\ Has(prev, s) => t <= prev[s]]

Improved(prev, labels) == {s \in DOMAIN labels : Improves(labels[s], prev, s)}

\* <<stop, time>>: one transfer edge out of the stops a ride improved
CanonWalks(rode, improved) ==
  UNION {{<<e.id, rode[s] + transferTime(s, e)>> : e \in Range(transferEntries(s))} :
           s \in improved}

CanonRelax(prev, rode) == MinLabels(rode, CanonWalks(rode, Improved(prev, rode)))

\* the labels at the end of a round that began with prev and the stops marked
CanonRound(prev, marked, trips, dateISO) ==
  CanonRelax(prev, MinLabels(prev, CanonRides(prev, marked, trips, dateISO)))

RECURSIVE CanonRounds(_, _, _, _, _, _)

\* the rounds after one that ended with the labels next
CanonAfter(round, prev, next, trips, dateISO, done) ==
  IF Improved(prev, next) = {} THEN Append(done, next)
  ELSE CanonRounds(round + 1, next, Improved(prev, next), trips, dateISO, Append(done, next))

\* the labels at the end of each round, up to the round cap
CanonRounds(round, prev, marked, trips, dateISO, done) ==
  IF round > MAX_ROUNDS THEN done
  ELSE CanonAfter(round, prev, CanonRound(prev, marked, trips, dateISO), trips, dateISO, done)

\* the canonical search of the last call of raptorCore, seeded as the call was
Canonical == CanonRounds(1, core.seeds, DOMAIN core.seeds, TripsOf(sj.stt), sj.dateISO, <<>>)

\* the round in which the canonical search brings the label of sid down to t
CanonFoundIn(rounds, sid, t) ==
  {r \in DOMAIN rounds :
     /\ Has(rounds[r], sid) /\ rounds[r][sid] = t
     /\ Improves(t, IF r = 1 THEN core.seeds ELSE rounds[r - 1], sid)}

SameAsCanonical(rounds) ==
  /\ Len(core.rounds) = Len(rounds)
  /\ \A r \in DOMAIN core.rounds : r \in DOMAIN rounds /\ core.rounds[r].tau_best = rounds[r]
  /\ \A n \in DOMAIN core.results :
       \E r \in CanonFoundIn(rounds, ArrivalStop(core.results[n]), core.results[n].arr_time) :
         core.results[n].transfers = r - 1

\* C22 - Equivalence with canonical RAPTOR: for every timetable, origins, start
\* time and date, a call of raptorCore and the canonical per-route scan with
\* the same transfer times and the same cap of 5 rounds end every round with
\* the same earliest arrival at every stop, and every journey the call reports
\* has the number of transfers of the canonical round that finds its arrival.
CanonicalEquivalence == CoreCalled => SameAsCanonical(Canonical)

----------------------------------------------------------------------------
(* The back-walk over any parent map *)

\* the stops from sid back to an origin along the parents, without a repeat
ChainsToOrigin(parent, originSet, sid) ==
  {chain \in UNION {[1..n -> Range(WalkStops)] : n \in 1..Len(WalkStops)} :
     /\ chain[1] = sid
     /\ chain[Len(chain)] \in originSet
     /\ \A i \in 1..(Len(chain) - 1) :
          /\ chain[i] \notin originSet
          /\ Has(parent, chain[i])
          /\ parent[chain[i]].from_stop = chain[i + 1]
     /\ \A i, k \in DOMAIN chain : chain[i] = chain[k] => i = k}

\* the back-walk from sid meets a stop again, or a stop without a parent
Broken(parent, originSet, sid) == ChainsToOrigin(parent, originSet, sid) = {}

\* the rides of the chain, the first boarded first
RidesOf(parent, chain) ==
  [n \in 1..Cardinality({i \in 1..(Len(chain) - 1) : ~parent[chain[i]].is_transfer}) |->
     parent[CHOOSE s \in {chain[i] : i \in 1..(Len(chain) - 1)} :
              /\ ~parent[s].is_transfer
              /\ Cardinality({i \in 1..(Len(chain) - 1) :
                                /\ ~parent[chain[i]].is_transfer
                                /\ \E k \in 1..i : chain[k] = s}) = n].trip_id]

\* C23 - Cyclic or broken predecessor chains: for any parent map, also one with
\* a cycle, reconstructJourney ends; when the back-walk from a stop meets a
\* stop again or a stop without a parent before it reaches an origin, it yields
\* no journey, and the collection of the round goes on with the other
\* destinations: each destination whose chain reaches an origin over at least
\* one ride has its journey among the results, and every result is the journey
\* of such a destination.
BrokenChains ==
  pc \in {"collected", "reached"} =>
    /\ \A sid \in Range(WalkStops) :
         Broken(core.parent, core.originSet, sid) =>
           reconstructJourney(core.parent, core.originSet, sid, NoDate) = <<>>
    /\ \A sid \in (IF pc = "collected" THEN Range(sj.destIds) ELSE Range(WalkStops) \ core.originSet) :
         \A chain \in ChainsToOrigin(core.parent, core.originSet, sid) :
           RidesOf(core.parent, chain) # <<>> =>
             \E n \in DOMAIN core.results : TripKey(core.results[n]) = RidesOf(core.parent, chain)
    /\ \A n \in DOMAIN core.results :
         \E sid \in Range(WalkStops) :
           \E chain \in ChainsToOrigin(core.parent, core.originSet, sid) :
             TripKey(core.results[n]) = RidesOf(core.parent, chain)

\* the parents of D and F point at each other, E has a ride from the origin: the
\* round collected the journey of E after the two back-walks that met a stop again
BrokenChainsWitness ==
  /\ pc = "collected"
  /\ Has(core.parent, D) /\ core.parent[D].from_stop = F
  /\ Has(core.parent, F) /\ core.parent[F].from_stop = D
  /\ Has(core.parent, E) /\ core.parent[E].from_stop = A /\ ~core.parent[E].is_transfer
  /\ Broken(core.parent, core.originSet, D)
  /\ Len(core.results) = 1
  /\ ArrivalStop(core.results[1]) = E

----------------------------------------------------------------------------
(* The data the requests share *)

\* an entry of the date cache is the index of the trips of the loaded timetable
\* that run on its date
CacheOfLoaded ==
  \A i \in DOMAIN dateCache :
     /\ dateCache[i].date \in DOMAIN calendarIndex
     /\ dateCache[i].stopToTrips =
          buildStopToTrips(filteredTrips(calendarIndex[dateCache[i].date]))

\* C24 - Requests leave shared data unchanged: no step of a search, explore or
\* debug request changes the loaded timetable (the stop times of every trip,
\* so no adjusted time is stored), the transfer index, the calendar index, the
\* station list or the global stopToTrips index; the date cache is the only
\* shared state that changes, and its entries stay the index of the loaded
\* trips of their date.
SharedDataUnchanged == [][data' = data]_vars /\ []CacheOfLoaded

\* a search on 2025-06-15 answered with a TI leg shown two hours after the
\* stored departure, the date in the cache, and the data as startup left them
SharedDataUnchangedWitness ==
  /\ pc = "idle" /\ req.path = "/api/search" /\ req.q.date = June15
  /\ \E n \in DOMAIN response.journeys :
       LET l == response.journeys[n].legs[1]
       IN /\ l.operator = OpTI
          /\ l.dep_time = TripById(l.trip_id).stop_times[1].dep_time + 7200
  /\ CacheHas(dateCache, June15)
  /\ globalStopToTrips = buildStopToTrips(routeTrips)
  /\ transferIndex = TransferIndex0 /\ calendarIndex = CalendarIndex0

----------------------------------------------------------------------------
(* The date cache *)

CachedDates == [i \in DOMAIN dateCache |-> dateCache[i].date]

\* what the request served by a step does to the dates of the cache
FifoStep ==
  LET d == req'.q.date
      dates == CachedDates
  IN CachedDates' =
       IF d = NoDate \/ d \notin DOMAIN calendarIndex \/ Includes(dates, d) THEN dates
       ELSE IF Len(dates) < 7 THEN Append(dates, d)
       ELSE Append(Tail(dates), d)

\* C25 - Bounded FIFO date cache: the cache never holds more than 7 entries
\* and never two of one date; a request for a calendar date that is not
\* cached appends it, after removing the entry inserted earliest when the
\* cache holds 7; a request for a cached date, for a date absent from the
\* calendar index or without a date leaves the cache as it is.
BoundedFifoCache ==
  /\ [](Len(dateCache) <= 7)
  /\ [](\A i, k \in DOMAIN dateCache : dateCache[i].date = dateCache[k].date => i = k)
  /\ [][FifoStep]_vars

\* a full cache that has lost the entry of the first date of the calendar and
\* holds the date of the request just served as its newest entry
BoundedFifoCacheWitness ==
  /\ Len(dateCache) = 7
  /\ ~CacheHas(dateCache, CalendarDates[1])
  /\ req.q.date = dateCache[7].date
  /\ dateCache[1].date = CalendarDates[3]

----------------------------------------------------------------------------
(* The repair of a circular trip *)

\* the stop times of the rows of the feed, and those of the trip written
RowStops ==
  LET rows == feed.dirs[feed.operators[1].gtfs_dir].stop_times
  IN [i \in DOMAIN rows |-> StopTimeOf(feed.operators[1].id, rows[i])]

WrittenStops == (CHOOSE trip \in WrittenTrips : TRUE).stop_times

\* (1) the stop times by sequence number
InSequence(stops) ==
  [n \in DOMAIN stops |->
     stops[CHOOSE i \in DOMAIN stops :
             Cardinality({k \in DOMAIN stops : stops[k].seq < stops[i].seq}) = n - 1]]

\* the time a stop is left at and the time it is reached at
Leaves(stop) == Coalesce(stop.dep_time, stop.arr_time)

Reaches(stop) == Coalesce(stop.arr_time, stop.dep_time)

\* (2) the positions reached more than 600 s before the stop before is left
Cuts(s) == {i \in 2..Len(s) : Reaches(s[i]) < Leaves(s[i - 1]) - 600}

\* the segments, as pairs of a first and a last position
Pieces(s) ==
  {<<a, b>> \in (DOMAIN s) \X (DOMAIN s) :
     /\ a <= b
     /\ a \in {1} \cup Cuts(s) /\ b + 1 \in {Len(s) + 1} \cup Cuts(s)
     /\ \A i \in (a + 1)..b : i \notin Cuts(s)}

\* (3) the place of each segment in the order of the first times
PlaceOf(s, pieces) ==
  [x \in pieces |->
     Cardinality({y \in pieces :
                    \/ Leaves(s[y[1]]) < Leaves(s[x[1]])
                    \/ Leaves(s[y[1]]) = Leaves(s[x[1]]) /\ y[1] < x[1]}) + 1]

\* the segments that start more than 600 s before the segment placed before
\* them ends: each opens a group
Openers(s, pieces, place) ==
  {x \in pieces :
     \E y \in pieces : place[y] + 1 = place[x] /\ Leaves(s[x[1]]) < Reaches(s[y[2]]) - 600}

\* no group opens between the places of x and y
SameGroup(place, openers, x, y) ==
  \A z \in openers :
     ~(Min(place[x], place[y]) < place[z] /\ place[z] <= Max(place[x], place[y]))

StopsOf(s, group) == {s[i] : i \in UNION {y[1]..y[2] : y \in group}}

GroupsOpened(s, pieces, place, openers) ==
  {StopsOf(s, {y \in pieces : SameGroup(place, openers, x, y)}) : x \in pieces}

GroupsPlaced(s, pieces, place) == GroupsOpened(s, pieces, place, Openers(s, pieces, place))

GroupsOf(s, pieces) == GroupsPlaced(s, pieces, PlaceOf(s, pieces))

\* the groups, each as the set of its stop times
Groups(s) == GroupsOf(s, Pieces(s))

\* out holds the stop times of a largest group
LargestGroup(groups, out) ==
  \E g \in groups : Range(out) = g /\ \A h \in groups : Cardinality(h) <= Cardinality(g)

RepairedAs(rows, s, out) ==
  /\ LargestGroup(Groups(s), out)
  /\ Range(out) \subseteq Range(rows)
  /\ \A i, k \in DOMAIN out : out[i] = out[k] => i = k
  /\ Cuts(s) = {} => Len(out) = Len(rows)

\* the written times of the example of the rotation
ExampleTimes == <<HM(6, 30), HM(8, 31), HM(11, 36), HM(12, 22), HM(13, 11)>>

\* C26 - Circular-trip repair result: the stop times of the trip written are
\* those of a largest group, the groups being made by (1) ordering the stop
\* times by sequence number, (2) cutting where a stop is reached more than
\* 600 s before the stop before it is left, (3) ordering the segments by first
\* time and opening a group at a segment that starts more than 600 s before
\* the segment placed before it ends; each stop time written is a stop time
\* of the rows, written once; a trip without a cut keeps all its stop times;
\* the rotation of five stops with a jump back to 06:30 keeps its five stops
\* in the order 06:30, 08:31, 11:36, 12:22, 13:11.
RepairResult ==
  Written =>
    /\ RepairedAs(RowStops, InSequence(RowStops), WrittenStops)
    /\ feed.dirs[feed.operators[1].gtfs_dir].stop_times = FeedTrips[3].stop_times
         => [i \in DOMAIN WrittenStops |-> WrittenStops[i].dep_time] = ExampleTimes

\* a trip of five stop times in two segments that do not join, written with
\* the three stop times of the larger one, which is the later one
RepairResultWitness ==
  /\ Written
  /\ Len(RowStops) = 5 /\ Len(WrittenStops) = 3
  /\ Cardinality(Groups(InSequence(RowStops))) = 2
  /\ WrittenStops[1].dep_time = HM(6, 20)

----------------------------------------------------------------------------
(* The transfer index gtfs-ingest.js writes *)

\* the ids listed for a stop in transfer_index.json
ListedFor(a) ==
  IF Has(artifacts.transferIndex, a)
  THEN {artifacts.transferIndex[a][n].id : n \in DOMAIN artifacts.transferIndex[a]}
  ELSE {}

\* C27 - Inter-city transfer links are produced: in the transfer index
\* written, two stops of the stops table that belong to different stations of
\* stations.json with the same city and country are linked, in both lists, by
\* an entry of the form {id, interCity: true}.
InterCityLinksProduced ==
  Written =>
    \A n, k \in DOMAIN feed.manifest.stations :
      LET s1 == feed.manifest.stations[n]
          s2 == feed.manifest.stations[k]
      IN (n # k /\ s1.city = s2.city /\ s1.country = s2.country) =>
           \A a \in Range(s1.stopIds) \cap DOMAIN artifacts.stopsDict :
             \A b \in (Range(s2.stopIds) \cap DOMAIN artifacts.stopsDict) \ Range(s1.stopIds) :
               /\ Has(artifacts.transferIndex, a)
               /\ Includes(artifacts.transferIndex[a], Obj(b, TRUE))

\* C28 - Manifest transfer links are symmetric: for two distinct stop ids of
\* one station of stations.json that are both in the stops table, each is in
\* the list of the other in the transfer index written; and no list of the
\* index holds the stop it belongs to.
ManifestLinksSymmetric ==
  Written =>
    /\ \A n \in DOMAIN feed.manifest.stations :
         \A a, b \in Range(feed.manifest.stations[n].stopIds) \cap DOMAIN artifacts.stopsDict :
           a # b => b \in ListedFor(a) /\ a \in ListedFor(b)
    /\ \A a \in DOMAIN artifacts.transferIndex : a \notin ListedFor(a)

\* the index written for the station of L and P, more than 300 m apart: each
\* is listed for the other
ManifestLinksSymmetricWitness ==
  /\ Written
  /\ feed.manifest.exists
  /\ \E n \in DOMAIN feed.manifest.stations :
       feed.manifest.stations[n].stopIds = <<"TI:L", "TI:P">>
  /\ {"TI:L", "TI:P"} \subseteq DOMAIN artifacts.stopsDict
  /\ ~Near(artifacts.stopsDict, "TI:L", "TI:P")
  /\ "TI:P" \in ListedFor("TI:L") /\ "TI:L" \in ListedFor("TI:P")

----------------------------------------------------------------------------
(* The station list build-stations-index.js writes                          *)

Members(sid) ==
  {i \in DOMAIN artifacts.stations : Includes(artifacts.stations[i].stopIds, sid)}

\* C29: in the written station list every stop id of stops.json is a member of
\* some station, and of one station only, whatever the rows of the CSV (rows
\* that share a UIC code included) and the transfer index
MembershipPartition ==
  pc = "indexed" =>
    \A sid \in Range(Sids(feed.stops)) : Cardinality(Members(sid)) = 1

\* the rank of the claim: SNCF > RENFE > OUIGO_ES > ES > TI
OperatorRank(op) ==
  CASE op = "SNCF" -> 5
    [] op = "RENFE" -> 4
    [] op = "OUIGO_ES" -> 3
    [] op = "ES" -> 2
    [] op = "TI" -> 1
    [] OTHER -> 0

BestRank(s) ==
  IF s.operators = {} THEN 0
  ELSE CHOOSE r \in {OperatorRank(op) : op \in s.operators} :
         \A op \in s.operators : OperatorRank(op) <= r

\* C30: in the written station list a station never comes after a station
\* whose best operator ranks lower (SNCF > RENFE > OUIGO_ES > ES > TI), so no
\* station without SNCF precedes a station with SNCF, and two stations with the
\* same operators are in the order of their names
OrderedByOperator ==
  pc = "indexed" =>
    \A i, j \in DOMAIN artifacts.stations :
      i < j =>
        /\ BestRank(artifacts.stations[i]) >= BestRank(artifacts.stations[j])
        /\ artifacts.stations[i].operators = artifacts.stations[j].operators
             => NameRank(artifacts.stations[i].name) <= NameRank(artifacts.stations[j].name)

====
